---- MODULE Spec2Model ----
(***************************************************************************)
(* Model of the streaming adapter core of foundry:                         *)
(*   - _OpenAINormalizer (src/foundry/adapters/openai_adapter.py), the     *)
(*     per-stream state machine that turns provider chunks into canonical  *)
(*     events;                                                             *)
(*   - _OpenAIStream, the buffered async iterator around a provider chunk  *)
(*     source, with its lock-guarded aclose.                               *)
(*                                                                         *)
(* Encoding of Python values                                               *)
(*   None / value        <<>> / <<value>>   (an optional is a 0/1 tuple)   *)
(*   str                 a TLA+ string, "" is the empty string             *)
(*   list                a sequence                                        *)
(*   dict[int, state]    a function whose DOMAIN is the set of keys        *)
(*   parsed JSON object  a set of <<key, value>> pairs                     *)
(*   datetime            the number of milliseconds after TS_ORIGIN        *)
(* Every asyncio task runs atomically between two suspension points, so    *)
(* each action below is one such segment of a coroutine.                   *)
(***************************************************************************)
EXTENDS FiniteSets, Integers, Sequences, TLC

(* ---- bounds of the model ---- *)
MaxChunks == 3
MaxCloseCalls == 2

(* ---- program constants ---- *)
TS_STEP_MS == 1

None == <<>>
Some(v) == <<v>>
IsNone(o) == o = <<>>
Val(o) == o[1]

EmptyDict == [j \in {} |-> 0]

(* ---- deterministic generators ---- *)

\* monotonic_seq(): the k-th call (k = 0, 1, ...) returns start + k, start = 0.
monotonic_seq(k) == 0 + k

\* stable_ts(): the k-th call returns origin + step * k (milliseconds after origin).
stable_ts(k) == TS_STEP_MS * k

(* ---- canonical events ---- *)

TokenEvent(seq, ts, content, index) ==
    [type |-> "Token", seq_id |-> seq, ts |-> ts, content |-> content, index |-> index]

ToolCallEvent(seq, ts, call_id, name, args) ==
    [type |-> "ToolCall", seq_id |-> seq, ts |-> ts, call_id |-> call_id,
     name |-> name, args |-> args]

ToolResultEvent(seq, ts, call_id, output) ==
    [type |-> "ToolResult", seq_id |-> seq, ts |-> ts, call_id |-> call_id,
     output |-> output]

FinalEvent(seq, ts, output, finish_reason, usage) ==
    [type |-> "Final", seq_id |-> seq, ts |-> ts, output |-> output,
     finish_reason |-> finish_reason, usage |-> usage]

(* ---- _ToolCallState ---- *)

NewToolCallState == [call_id |-> None, name |-> None, fragments |-> <<>>]

RECURSIVE JoinStr(_)
JoinStr(frags) ==
    IF frags = <<>> THEN "" ELSE Head(frags) \o JoinStr(Tail(frags))

(* ---- json.loads ---- *)

\* The character of text s at position i (from 1), "" beyond its ends.
Ch(s, i) == IF i >= 1 /\ i <= Len(s) THEN SubSeq(s, i, i) ELSE ""
\* The k characters of s from position i, "" when s ends before them.
Slice(s, i, k) == IF i >= 1 /\ i + k - 1 <= Len(s) THEN SubSeq(s, i, i + k - 1) ELSE ""

JsonWhitespace == {" ", "\t", "\n", "\r"}
JsonDigits == {"0", "1", "2", "3", "4", "5", "6", "7", "8", "9"}
DigitValue(c) ==
    CASE c = "0" -> 0 [] c = "1" -> 1 [] c = "2" -> 2 [] c = "3" -> 3 [] c = "4" -> 4
      [] c = "5" -> 5 [] c = "6" -> 6 [] c = "7" -> 7 [] c = "8" -> 8 [] c = "9" -> 9

\* WHITESPACE.match(s, i).end()
RECURSIVE SkipWs(_, _)
SkipWs(s, i) == IF Ch(s, i) \in JsonWhitespace THEN SkipWs(s, i + 1) ELSE i

\* The position after the run of digits that starts at i.
RECURSIVE ScanDigits(_, _)
ScanDigits(s, i) == IF Ch(s, i) \in JsonDigits THEN ScanDigits(s, i + 1) ELSE i

\* int() of the digits of s from i up to j - 1, after the digits read so far.
RECURSIVE DigitsValue(_, _, _, _)
DigitsValue(s, i, j, acc) ==
    IF i >= j THEN acc ELSE DigitsValue(s, i + 1, j, 10 * acc + DigitValue(Ch(s, i)))

\* A value scanned: the position after it, its kind, its number when it is an
\* integer, and, for an object, its members whose values are integers, as a set
\* of <<key, value>>.
JsonScanned(next, kind, num, members) ==
    [ok |-> TRUE, next |-> next, kind |-> kind, num |-> num, members |-> members]
JsonFail == [ok |-> FALSE, next |-> 0, kind |-> "none", num |-> 0, members |-> {}]

\* NUMBER_RE matched at i: -?(0|[1-9][0-9]*)(\.[0-9]+)?([eE][-+]?[0-9]+)?
\* j0, j1, j2 and j3 are the positions after the sign, the integer part, the
\* fraction and the exponent; k is where the digits of an exponent would start.
NumberScanned(s, i, j0, j1, j3) ==
    IF j1 = j0 THEN JsonFail
    ELSE IF j3 # j1 THEN JsonScanned(j3, "float", 0, {})
    ELSE IF j0 = i THEN JsonScanned(j3, "int", DigitsValue(s, j0, j1, 0), {})
    ELSE JsonScanned(j3, "int", 0 - DigitsValue(s, j0, j1, 0), {})
ScanExponent(s, j2, k) ==
    IF Ch(s, j2) \in {"e", "E"} /\ Ch(s, k) \in JsonDigits THEN ScanDigits(s, k) ELSE j2
NumberFromFraction(s, i, j0, j1, j2) ==
    NumberScanned(s, i, j0, j1,
                  ScanExponent(s, j2, IF Ch(s, j2 + 1) \in {"+", "-"} THEN j2 + 2 ELSE j2 + 1))
NumberFromInteger(s, i, j0, j1) ==
    NumberFromFraction(s, i, j0, j1,
                       IF Ch(s, j1) = "." /\ Ch(s, j1 + 1) \in JsonDigits
                       THEN ScanDigits(s, j1 + 1) ELSE j1)
NumberFromSign(s, i, j0) ==
    NumberFromInteger(s, i, j0, IF Ch(s, j0) = "0" THEN j0 + 1 ELSE ScanDigits(s, j0))
ScanNumber(s, i) == NumberFromSign(s, i, IF Ch(s, i) = "-" THEN i + 1 ELSE i)

StringScanned(next, str) == [ok |-> TRUE, next |-> next, str |-> str]
StringFail == [ok |-> FALSE, next |-> 0, str |-> ""]

\* The ASCII characters a JSON string may hold unescaped, in code order from 0x20
\* to 0x7f: the printable ones and, last, DEL.
\* (The grave accent, 0x60, is the first character of a two-character literal.)
JsonGrave == SubSeq("`'", 1, 1)
JsonAscii ==
    " !\"#$%&'()*+,-./0123456789:;<=>?@ABCDEFGHIJKLMNOPQRSTUVWXYZ[\\]^_"
    \o JsonGrave \o "abcdefghijklmnopqrstuvwxyz{|}~"
JsonPrintable == {SubSeq(JsonAscii, i, i) : i \in 1..Len(JsonAscii)}

\* chr(cp) for the code points a text of the model can hold, "" for the others.
CharOf(cp) ==
    IF cp >= 32 /\ cp <= 127 THEN SubSeq(JsonAscii, cp - 31, cp - 31)
    ELSE IF cp = 9 THEN "\t"
    ELSE IF cp = 10 THEN "\n"
    ELSE IF cp = 12 THEN "\f"
    ELSE IF cp = 13 THEN "\r"
    ELSE ""

\* The value of a hexadecimal digit, -1 for any other character.
HexValue(c) ==
    IF c \in JsonDigits THEN DigitValue(c)
    ELSE IF c \in {"a", "A"} THEN 10
    ELSE IF c \in {"b", "B"} THEN 11
    ELSE IF c \in {"c", "C"} THEN 12
    ELSE IF c \in {"d", "D"} THEN 13
    ELSE IF c \in {"e", "E"} THEN 14
    ELSE IF c \in {"f", "F"} THEN 15
    ELSE -1
\* The code point written by the four characters of s from i, -1 when they are
\* not four hexadecimal digits.
HexCodePoint(s, i) ==
    IF \E k \in 0..3 : HexValue(Ch(s, i + k)) = -1 THEN -1
    ELSE 4096 * HexValue(Ch(s, i)) + 256 * HexValue(Ch(s, i + 1))
         + 16 * HexValue(Ch(s, i + 2)) + HexValue(Ch(s, i + 3))

\* py_scanstring (strict) from position j, after the opening quote, with the text
\* acc decoded so far: the decoded text and the position after the closing
\* quote. The texts modelled are those of ASCII characters, of which a string may
\* not hold the control characters below 0x20 unescaped; of the escapes,
\* \b and the \uXXXX of other code points are outside them. c is the character
\* at j, e the one after it and u the character a \uXXXX at j stands for.
RECURSIVE ScanString(_, _, _)
ScanUnicode(s, j, acc, u) ==
    IF u = "" THEN StringFail ELSE ScanString(s, j + 6, acc \o u)
ScanEscape(s, j, acc, e) ==
    IF e \in {"\"", "\\", "/"} THEN ScanString(s, j + 2, acc \o e)
    ELSE IF e = "n" THEN ScanString(s, j + 2, acc \o "\n")
    ELSE IF e = "r" THEN ScanString(s, j + 2, acc \o "\r")
    ELSE IF e = "t" THEN ScanString(s, j + 2, acc \o "\t")
    ELSE IF e = "f" THEN ScanString(s, j + 2, acc \o "\f")
    ELSE IF e = "u" THEN ScanUnicode(s, j, acc, CharOf(HexCodePoint(s, j + 2)))
    ELSE StringFail
ScanStringAt(s, j, acc, c, e) ==
    IF c = "\"" THEN StringScanned(j + 1, acc)
    ELSE IF c = "\\" THEN ScanEscape(s, j, acc, e)
    ELSE IF c \in JsonPrintable THEN ScanString(s, j + 1, acc \o c)
    ELSE StringFail
ScanString(s, j, acc) == ScanStringAt(s, j, acc, Ch(s, j), Ch(s, j + 1))

RECURSIVE JsonValue(_, _)
RECURSIVE JsonMembers(_, _, _)
RECURSIVE JsonItems(_, _)

\* JSONObject after a member: `}` ends the object, `,` leads to the next key.
MembersEnd(s, after, acc) ==
    IF Ch(s, after) = "}" THEN JsonScanned(after + 1, "object", 0, acc)
    ELSE IF Ch(s, after) = "," THEN JsonMembers(s, SkipWs(s, after + 1), acc)
    ELSE JsonFail
\* The member key: v joins the members gathered so far; a key met again replaces
\* the earlier member.
MembersWithValue(s, key, v, acc) ==
    IF ~v.ok THEN JsonFail
    ELSE IF v.kind = "int"
    THEN MembersEnd(s, SkipWs(s, v.next), {m \in acc : m[1] # key} \cup {<<key, v.num>>})
    ELSE MembersEnd(s, SkipWs(s, v.next), {m \in acc : m[1] # key})
MembersAtColon(s, key, colon, acc) ==
    IF Ch(s, colon) # ":" THEN JsonFail
    ELSE MembersWithValue(s, key, JsonValue(s, SkipWs(s, colon + 1)), acc)
MembersAfterKey(s, key, acc) ==
    IF ~key.ok THEN JsonFail
    ELSE MembersAtColon(s, key.str, SkipWs(s, key.next), acc)
\* JSONObject from a key on: `"key" : value`, then the end of the object or the
\* next member.
JsonMembers(s, j, acc) ==
    IF Ch(s, j) # "\"" THEN JsonFail
    ELSE MembersAfterKey(s, ScanString(s, j + 1, ""), acc)

\* JSONArray from a value on: value then `]` or `,` and the next value.
ItemsEnd(s, after) ==
    IF Ch(s, after) = "]" THEN JsonScanned(after + 1, "array", 0, {})
    ELSE IF Ch(s, after) = "," THEN JsonItems(s, SkipWs(s, after + 1))
    ELSE JsonFail
ItemsWithValue(s, v) == IF ~v.ok THEN JsonFail ELSE ItemsEnd(s, SkipWs(s, v.next))
JsonItems(s, j) == ItemsWithValue(s, JsonValue(s, j))

StringValue(str) == IF str.ok THEN JsonScanned(str.next, "string", 0, {}) ELSE JsonFail
\* `{` met: inner is the position of the first character after it that is not
\* whitespace.
ObjectFrom(s, inner) ==
    IF Ch(s, inner) = "}" THEN JsonScanned(inner + 1, "object", 0, {})
    ELSE JsonMembers(s, inner, {})
ArrayFrom(s, inner) ==
    IF Ch(s, inner) = "]" THEN JsonScanned(inner + 1, "array", 0, {})
    ELSE JsonItems(s, inner)
\* The number at i, or else one of the constants NaN, Infinity and -Infinity.
NumberOrConstant(s, i, number) ==
    IF number.ok THEN number
    ELSE IF Slice(s, i, 3) = "NaN" THEN JsonScanned(i + 3, "float", 0, {})
    ELSE IF Slice(s, i, 8) = "Infinity" THEN JsonScanned(i + 8, "float", 0, {})
    ELSE IF Slice(s, i, 9) = "-Infinity" THEN JsonScanned(i + 9, "float", 0, {})
    ELSE JsonFail

\* scan_once at position i, where the character is c.
JsonValueAt(s, i, c) ==
    IF c = "\"" THEN StringValue(ScanString(s, i + 1, ""))
    ELSE IF c = "{" THEN ObjectFrom(s, SkipWs(s, i + 1))
    ELSE IF c = "[" THEN ArrayFrom(s, SkipWs(s, i + 1))
    ELSE IF Slice(s, i, 4) = "null" THEN JsonScanned(i + 4, "literal", 0, {})
    ELSE IF Slice(s, i, 4) = "true" THEN JsonScanned(i + 4, "literal", 0, {})
    ELSE IF Slice(s, i, 5) = "false" THEN JsonScanned(i + 5, "literal", 0, {})
    ELSE NumberOrConstant(s, i, ScanNumber(s, i))
JsonValue(s, i) == JsonValueAt(s, i, Ch(s, i))

\* JSONDecoder.decode once raw_decode has returned v: the whitespace after the
\* value is skipped and text left over is a JSONDecodeError.
JsonDecoded(raw, v) ==
    IF v.ok /\ SkipWs(raw, v.next) = Len(raw) + 1
    THEN [ok |-> TRUE, is_dict |-> v.kind = "object", value |-> v.members]
    ELSE [ok |-> FALSE, is_dict |-> FALSE, value |-> {}]

\* json.loads(raw), for a text of ASCII characters: ok FALSE stands for
\* JSONDecodeError. value holds the members of a decoded object whose values are
\* integers, the only member values the argument texts of the chunks carry.
JsonLoads(raw) == JsonDecoded(raw, JsonValue(raw, SkipWs(raw, 1)))

\* _ToolCallState.build_arguments: [ok, args]; not ok stands for AdapterStreamError,
\* raised when raw is not a JSON document and when it is not an object.
\* parsed is the outcome of json.loads(raw).
arguments_parsed(parsed) ==
    IF ~parsed.ok THEN [ok |-> FALSE, args |-> {}]
    ELSE IF ~parsed.is_dict THEN [ok |-> FALSE, args |-> {}]
    ELSE [ok |-> TRUE, args |-> parsed.value]
build_arguments(state) ==
    IF JoinStr(state.fragments) = "" THEN [ok |-> TRUE, args |-> {}]
    ELSE arguments_parsed(JsonLoads(JoinStr(state.fragments)))

\* _ToolCallState.update_from_payload: the accumulator after the call and whether
\* the call raised. The id is stored before type and name are looked at, so a raise
\* on type or name leaves the new call_id in place.
update_from_payload(state, payload) ==
    LET badId == ~IsNone(payload.id) /\ Val(payload.id) = ""
        s1 == IF ~IsNone(payload.id) /\ ~badId
              THEN [state EXCEPT !.call_id = payload.id] ELSE state
        badType == ~IsNone(payload.type) /\ Val(payload.type) # "function"
        fn == payload.function
        hasName == ~IsNone(fn) /\ ~IsNone(Val(fn).name)
        badName == hasName /\ Val(Val(fn).name) = ""
        s2 == IF hasName /\ ~badName THEN [s1 EXCEPT !.name = Val(fn).name] ELSE s1
    IN  IF badId THEN [err |-> TRUE, state |-> state]
        ELSE IF badType THEN [err |-> TRUE, state |-> s1]
        ELSE IF badName THEN [err |-> TRUE, state |-> s1]
        ELSE [err |-> FALSE, state |-> s2]

(* ---- _OpenAINormalizer ---- *)

\* _OpenAINormalizer.__init__ with seq_factory = monotonic_seq(), ts_factory =
\* stable_ts(): seq_calls and ts_calls count the calls made to the two closures.
NormalizerInit ==
    [seq_calls |-> 0, ts_calls |-> 0, token_index |-> 0, text_fragments |-> <<>>,
     tool_states |-> EmptyDict, final_emitted |-> FALSE,
     last_total_tokens |-> None, last_tool_result_output |-> None]

\* A normalisation in progress: the normalizer state, the events built so far and
\* whether an AdapterStreamError has been raised (state changes made before the
\* raise stay).
Progress(st, events, err) == [st |-> st, events |-> events, err |-> err]
Raise(r) == [r EXCEPT !.err = TRUE]

\* seq_id=self._next_seq(), ts=self._next_ts() of one event construction.
TakeStamp(st) == [st EXCEPT !.seq_calls = @ + 1, !.ts_calls = @ + 1]

\* _normalize_tool_result
normalize_tool_result(r, payload) ==
    IF payload.id = "" THEN Raise(r)
    ELSE LET st == r.st
             ev == ToolResultEvent(monotonic_seq(st.seq_calls), stable_ts(st.ts_calls),
                                   payload.id, payload.output)
             st1 == TakeStamp([st EXCEPT !.last_tool_result_output = Some(payload.output)])
         IN  Progress(st1, Append(r.events, ev), FALSE)

DictSet(d, k, v) == [j \in (DOMAIN d) \cup {k} |-> IF j = k THEN v ELSE d[j]]
\* DictPop that leaves the entry in place.
DictPop_Kept(d, k) == d
DictPop(d, k) == [j \in (DOMAIN d) \ {k} |-> d[j]]

\* A test that takes any finish_reason for the end of the tool turn.
closes_tool_turn_AnyReason(finish_reason) == ~IsNone(finish_reason)
\* `if finish_reason == "tool_calls":` of _normalize_tool_calls.
closes_tool_turn(finish_reason) == finish_reason = Some("tool_calls")

\* One iteration of the for loop of _normalize_tool_calls.
normalize_tool_call_item(r, item, finish_reason) ==
    LET st == r.st
        raw_index == item.index
        \* self._tool_states.setdefault(raw_index, _ToolCallState())
        state0 == IF raw_index \in DOMAIN st.tool_states
                  THEN st.tool_states[raw_index] ELSE NewToolCallState
        upd == update_from_payload(state0, item)
        fn == item.function
        fragment == IF IsNone(fn) THEN None ELSE Val(fn).arguments
        state1 == IF ~IsNone(fragment) /\ Val(fragment) # ""
                  THEN [upd.state EXCEPT !.fragments = Append(@, Val(fragment))]
                  ELSE upd.state
        stUpd == [st EXCEPT !.tool_states = DictSet(@, raw_index, upd.state)]
        stAcc == [st EXCEPT !.tool_states = DictSet(@, raw_index, state1)]
        built == build_arguments(state1)
        ev == ToolCallEvent(monotonic_seq(st.seq_calls), stable_ts(st.ts_calls),
                            Val(state1.call_id), Val(state1.name), built.args)
        stEmit == TakeStamp([st EXCEPT !.tool_states = DictPop(@, raw_index)])
    IN  IF upd.err THEN Raise([r EXCEPT !.st = stUpd])
        ELSE IF ~closes_tool_turn(finish_reason) THEN [r EXCEPT !.st = stAcc]
        ELSE IF IsNone(state1.call_id) THEN Raise([r EXCEPT !.st = stAcc])
        ELSE IF IsNone(state1.name) THEN Raise([r EXCEPT !.st = stAcc])
        ELSE IF ~built.ok THEN Raise([r EXCEPT !.st = stAcc])
        ELSE Progress(stEmit, Append(r.events, ev), FALSE)

\* _normalize_tool_calls: the loop over enumerate(payload); a raise ends it.
RECURSIVE normalize_tool_calls(_, _, _)
normalize_tool_calls(r, payload, finish_reason) ==
    IF r.err \/ payload = <<>> THEN r
    ELSE normalize_tool_calls(normalize_tool_call_item(r, Head(payload), finish_reason),
                              Tail(payload), finish_reason)

\* The content half of _normalize_delta: at most one Token per chunk.
normalize_content(r, delta) ==
    LET st == r.st
        c == delta.content
        ev == TokenEvent(monotonic_seq(st.seq_calls), stable_ts(st.ts_calls),
                         Val(c), st.token_index)
        st1 == TakeStamp([st EXCEPT !.token_index = @ + 1,
                                    !.text_fragments = Append(@, Val(c)),
                                    !.last_tool_result_output = None])
    IN  IF IsNone(c) \/ Val(c) = "" THEN r
        ELSE Progress(st1, Append(r.events, ev), FALSE)

\* _normalize_delta with the two halves swapped: tool calls first, then content.
normalize_delta_calls_first(r, delta, finish_reason) ==
    LET r1 == IF IsNone(delta.tool_calls) THEN r
              ELSE normalize_tool_calls(r, Val(delta.tool_calls), finish_reason)
    IN  IF r1.err THEN r1 ELSE normalize_content(r1, delta)

\* _normalize_delta: content first, then tool calls.
normalize_delta(r, delta, finish_reason) ==
    LET r1 == normalize_content(r, delta)
    IN  IF IsNone(delta.tool_calls) THEN r1
        ELSE normalize_tool_calls(r1, Val(delta.tool_calls), finish_reason)

\* _render_final_output
render_final_output(st) ==
    IF st.text_fragments # <<>> THEN JoinStr(st.text_fragments)
    ELSE IF ~IsNone(st.last_tool_result_output) THEN Val(st.last_tool_result_output)
    ELSE ""

\* _extract_total_tokens: [err, total]
extract_total_tokens(chunk) ==
    IF IsNone(chunk.usage) THEN [err |-> FALSE, total |-> None]
    ELSE IF IsNone(Val(chunk.usage).total_tokens) THEN [err |-> FALSE, total |-> None]
    ELSE IF Val(Val(chunk.usage).total_tokens) < 0 THEN [err |-> TRUE, total |-> None]
    ELSE [err |-> FALSE, total |-> Val(chunk.usage).total_tokens]

\* TerminalReasons with only "stop" recognised.
TerminalReasons_StopOnly == {Some("stop")}

TerminalReasons == {Some("stop"), Some("length"), Some("content_filter")}

\* _maybe_build_final_event. The usage of the Final, None or {"total_tokens": n},
\* is the optional n.
maybe_build_final_event(r, chunk, finish_reason) ==
    LET st == r.st
        tt == extract_total_tokens(chunk)
        st1 == IF IsNone(tt.total) THEN st ELSE [st EXCEPT !.last_total_tokens = tt.total]
        ev == FinalEvent(monotonic_seq(st1.seq_calls), stable_ts(st1.ts_calls),
                         render_final_output(st1), Val(finish_reason),
                         st1.last_total_tokens)
        st2 == TakeStamp([st1 EXCEPT !.final_emitted = TRUE])
    IN  IF st.final_emitted THEN r
        ELSE IF tt.err THEN Raise(r)
        ELSE IF finish_reason \notin TerminalReasons THEN [r EXCEPT !.st = st1]
        ELSE Progress(st2, Append(r.events, ev), FALSE)

\* _extract_delta: a missing delta is the empty mapping.
extract_delta(choice) ==
    IF IsNone(choice.delta) THEN [content |-> None, tool_calls |-> None]
    ELSE Val(choice.delta)

\* normalize_chunk: [st, events, err]; err stands for AdapterStreamError, and then
\* no event list is returned to the caller.
normalize_chunk(st, chunk) ==
    LET r0 == Progress(st, <<>>, FALSE)
        r1 == IF IsNone(chunk.tool_result) THEN r0
              ELSE normalize_tool_result(r0, Val(chunk.tool_result))
        choice == Val(chunk.choices)[1]
        finish_reason == choice.finish_reason
        r2 == normalize_delta(r1, extract_delta(choice), finish_reason)
        r3 == IF finish_reason = Some("tool_calls")
              THEN [r2 EXCEPT !.st.text_fragments = <<>>] ELSE r2
        r4 == maybe_build_final_event(r3, chunk, finish_reason)
    IN  IF r1.err THEN r1
        ELSE IF IsNone(chunk.choices) THEN r1
        ELSE IF Val(chunk.choices) = <<>> THEN Raise(r1)
        ELSE IF r2.err THEN r2
        ELSE r4

(* ---- provider chunks ---- *)

Chunk(tool_result, choices, usage) ==
    [tool_result |-> tool_result, choices |-> choices, usage |-> usage]
Choice(delta, finish_reason) == [delta |-> delta, finish_reason |-> finish_reason]
Delta(content, tool_calls) == [content |-> content, tool_calls |-> tool_calls]
ToolCallDelta(index, id, type, function) ==
    [index |-> index, id |-> id, type |-> type, function |-> function]
Function(name, arguments) == [name |-> name, arguments |-> arguments]
ToolResult(id, output) == [id |-> id, output |-> output]
Usage(total_tokens) == [total_tokens |-> total_tokens]

\* {"choices": [{"delta": delta, "finish_reason": finish_reason}]}
OneChoice(delta, finish_reason) == Some(<<Choice(Some(delta), finish_reason)>>)

\* A whole tool call in one delta entry: id, type, name and the arguments "{}".
WholeCall(index, id) ==
    ToolCallDelta(index, Some(id), Some("function"), Some(Function(Some("f"), Some("{}"))))
\* The first delta of a tool call: id, name and the opening argument fragment.
OpenCall(index, id) ==
    ToolCallDelta(index, Some(id), Some("function"), Some(Function(Some("f"), Some("{"))))
\* A continuation delta: only an argument fragment.
ArgsOnly(index, fragment) ==
    ToolCallDelta(index, None, None, Some(Function(None, Some(fragment))))

ResultA == Some(ToolResult("call_a", "R"))

\* The provider chunks the source may yield.
ChunkSet ==
    { \* a token
      Chunk(None, OneChoice(Delta(Some("a"), None), None), None),
      \* no event: empty content, empty tool_calls, usage on a non-terminal chunk
      Chunk(None, OneChoice(Delta(Some(""), Some(<<>>)), None), Some(Usage(Some(7)))),
      \* a tool result alone (no choices)
      Chunk(ResultA, None, None),
      \* usage alone (no choices)
      Chunk(None, None, Some(Usage(Some(9)))),
      \* tool result, token and a whole tool call, turn yielded to the tools
      Chunk(ResultA, OneChoice(Delta(Some("c"), Some(<<WholeCall(1, "call_b")>>)),
                               Some("tool_calls")), None),
      \* a tool call in two deltas, the second one closing the turn
      Chunk(None, OneChoice(Delta(None, Some(<<OpenCall(0, "call_a")>>)), None), None),
      Chunk(None, OneChoice(Delta(None, Some(<<ArgsOnly(0, "}")>>)), Some("tool_calls")), None),
      \* a whole tool call closing the turn
      Chunk(None, OneChoice(Delta(None, Some(<<WholeCall(0, "call_a")>>)),
                            Some("tool_calls")), None),
      \* finish_reason "tool_calls" on an empty delta
      Chunk(None, OneChoice(Delta(None, None), Some("tool_calls")), None),
      \* terminal chunks
      Chunk(None, OneChoice(Delta(None, None), Some("stop")), Some(Usage(Some(4)))),
      Chunk(None, OneChoice(Delta(Some("e"), None), Some("length")), None),
      \* chunks the normalizer rejects: empty choices after a tool result, an empty
      \* tool-call id after a token
      Chunk(ResultA, Some(<<>>), None),
      Chunk(None, OneChoice(Delta(Some("g"),
                Some(<<ToolCallDelta(0, Some(""), None, None)>>)), None), None)
    }

(* ---- _OpenAIStream and the tasks that use it ---- *)

Puller == 0
Closers == 1..MaxCloseCalls
Free == -1

VARIABLES
    normalizer,     \* the _OpenAINormalizer of the stream
    buffer,         \* _OpenAIStream._buffer
    closed,         \* _OpenAIStream._closed
    finalized,      \* _OpenAIStream._finalized
    close_lock,     \* holder of _OpenAIStream._close_lock, Free when unlocked
    lock_waiters,   \* _close_lock._waiters: the tasks suspended in acquire(), in order
    pc,             \* where each task is suspended
    pending,        \* what the pull does once its aclose() returns
    fetched,        \* number of chunks the provider source has yielded
    closer_calls,   \* number of calls of the provider source's closer
    close_calls,    \* number of calls of aclose() made by the consumer
    close_returned, \* some consumer call of aclose() has returned
    chunks_seen,    \* the chunks yielded by the source, in order
    last_norm,      \* outcome of the latest normalize_chunk: [ok, events]
    last_handed,    \* how many events of last_norm.events were handed over
    delivered,      \* the events handed to the consumer, in order
    pull,           \* the pull in progress, or else the latest one
    had_error       \* some pull has raised an error

\* The streams returned by OpenAIAdapter.stream and the generator closures made by
\* monotonic_seq() and stable_ts().
VARIABLES
    streams,        \* the _OpenAIStream of each call of OpenAIAdapter.stream
    seq_counters,   \* count(start) of each closure made by monotonic_seq()
    ts_counters     \* count() of each closure made by stable_ts()

\* Tool specifications.
VARIABLES
    tool_spec,      \* the latest ToolSpec constructed from caller input, if any
    tool_again      \* the ToolSpec constructed again from the fields of tool_spec

\* The tool bridge, the message schema and the adapter facade: the call a caller
\* makes of each, with its arguments and its outcome (None before the call).
VARIABLES
    bridge,         \* the call of normalize_tool_calls / tool_specs_to_openai
    message,        \* the Message(...) or openai_to_messages(...) call
    facade          \* the OpenAIAdapter constructed and its request

\* The agent runtime (src/foundry/runtime/loop.py) and what it drives.
VARIABLES
    runtime,        \* the AgentRuntime, once constructed
    iterator,       \* the BaseStreamIterator returned by adapter.stream, once made
    consumer,       \* the task that pulls from the runtime, and what it has seen
    replay          \* a running transcript.replay() generator, if any

\* An _OpenAINormalizer fed tool-call deltas.
VARIABLES
    fed             \* the normalize_chunk calls made of it, in order

\* An AgentRuntime handling events, and a caller that mutates runtime.state.
VARIABLES
    session         \* the runtime, the events it handled and the states it went through

\* An OpenAIStreamNormalizer (src/foundry/core/adapters/openai.py) fed chunks.
VARIABLES
    core            \* the normalize_chunk calls made of it, in order

stream_vars == <<normalizer, buffer, closed, finalized, close_lock, lock_waiters, pc, pending,
                 fetched,
                 closer_calls, close_calls, close_returned, chunks_seen, last_norm,
                 last_handed, delivered, pull, had_error>>
adapter_vars == <<streams, seq_counters, ts_counters>>
tool_vars == <<tool_spec, tool_again>>
bridge_vars == <<bridge>>
message_vars == <<message>>
facade_vars == <<facade>>
runtime_vars == <<runtime, iterator, consumer, replay>>
fed_vars == <<fed>>
session_vars == <<session>>
core_vars == <<core>>

vars == <<stream_vars, adapter_vars, tool_vars, bridge_vars, message_vars, facade_vars,
          runtime_vars, fed_vars, session_vars, core_vars>>

\* What the steps of one component leave alone.
outside_stream ==
    <<adapter_vars, tool_vars, bridge_vars, message_vars, facade_vars,
      runtime_vars, fed_vars, session_vars, core_vars>>
outside_adapter ==
    <<stream_vars, tool_vars, bridge_vars, message_vars, facade_vars,
      runtime_vars, fed_vars, session_vars, core_vars>>
outside_tools ==
    <<stream_vars, adapter_vars, bridge_vars, message_vars, facade_vars,
      runtime_vars, fed_vars, session_vars, core_vars>>
outside_bridge ==
    <<stream_vars, adapter_vars, tool_vars, message_vars, facade_vars,
      runtime_vars, fed_vars, session_vars, core_vars>>
outside_message ==
    <<stream_vars, adapter_vars, tool_vars, bridge_vars, facade_vars,
      runtime_vars, fed_vars, session_vars, core_vars>>
outside_facade ==
    <<stream_vars, adapter_vars, tool_vars, bridge_vars, message_vars,
      runtime_vars, fed_vars, session_vars, core_vars>>
outside_runtime ==
    <<stream_vars, adapter_vars, tool_vars, bridge_vars, message_vars,
      facade_vars, fed_vars, session_vars, core_vars>>
outside_fed ==
    <<stream_vars, adapter_vars, tool_vars, bridge_vars, message_vars,
      facade_vars, runtime_vars, session_vars, core_vars>>
outside_session ==
    <<stream_vars, adapter_vars, tool_vars, bridge_vars, message_vars,
      facade_vars, runtime_vars, fed_vars, core_vars>>
outside_core ==
    <<stream_vars, adapter_vars, tool_vars, bridge_vars, message_vars,
      facade_vars, runtime_vars, fed_vars, session_vars>>

StreamIds == {1, 2}

Eos == [kind |-> "eos", event |-> None]
Err == [kind |-> "err", event |-> None]
Event(e) == [kind |-> "event", event |-> Some(e)]
NoOutcome == [kind |-> "none", event |-> None]

\* No call of OpenAIAdapter.stream made yet for this stream. waiting: the pull
\* awaits the source; closing: the pull awaits the source's closer inside aclose(),
\* and `pending` is what __anext__ does once aclose() has returned.
NoStream ==
    [created |-> FALSE, seq_factory |-> 0, ts_factory |-> 0,
     normalizer |-> NormalizerInit, buffer |-> <<>>, closed |-> FALSE,
     finalized |-> FALSE, waiting |-> FALSE, closing |-> FALSE,
     pending |-> NoOutcome, chunks |-> <<>>, delivered |-> <<>>,
     outcome |-> "none", closer_calls |-> 0]

HasFinal(events) == \E i \in 1..Len(events) : events[i].type = "Final"

\* A pull as the consumer sees it. kind: "running", or how it ended ("event",
\* "eos", "err"); after_close / after_final: it started after a consumer aclose()
\* had returned / after a Final had been handed over; raced: aclose() was called
\* while it was suspended on the source, which had yielded race_fetched chunks;
\* src: the latest answer of the source to this pull; after_error: "none", or what
\* the first pull that raised an error had got from the source ("error": the source
\* raised, "chunk": a chunk that was then rejected).
NewPull ==
    [kind |-> "running", event |-> None, after_close |-> close_returned,
     after_final |-> HasFinal(delivered), raced |-> FALSE, race_fetched |-> 0,
     src |-> "none",
     after_error |-> IF pull.after_error # "none" THEN pull.after_error
                     ELSE IF pull.kind = "err" THEN pull.src ELSE "none"]

\* AgentState(): the dataclass defaults. metadata holds its optional keys as
\* optional fields (None: the key is absent).
NewAgentState ==
    [memory |-> <<>>, last_tool |-> None, tokens |-> <<>>,
     metadata |-> [token_counts |-> None, tool_calls |-> None, tool_results |-> None,
                   final_output |-> None, total_tokens |-> None]]

\* SessionTranscript(): _events and _states.
NewSessionTranscript == [events |-> <<>>, states |-> <<>>]

\* No AgentRuntime constructed yet. stream: _stream is not None.
NoRuntime ==
    [constructed |-> FALSE, closed |-> FALSE, stream |-> FALSE, state |-> NewAgentState,
     transcript |-> NewSessionTranscript, given |-> NewSessionTranscript]

\* No call of adapter.stream made yet. pulls, fetches, close_calls and on_close_calls
\* count the calls of __anext__, _get_next_chunk, close and _on_close.
NoIterator ==
    [created |-> FALSE, buffer |-> <<>>, closed |-> FALSE, finalized |-> FALSE,
     pulls |-> 0, fetches |-> 0, close_calls |-> 0, on_close_calls |-> 0]

\* The consumer before its first pull. pc: where its pull is suspended; outcome: how
\* the latest pull ended ("event", "eos", "err", "cancelled"), "running" while it is
\* suspended; raised: what iterator.__anext__ raised in the latest pull, if anything;
\* before: the runtime and the iterator as they were when the latest pull started.
NoConsumer ==
    [pc |-> "idle", pulls |-> 0, aclose_calls |-> 0, stream_calls |-> 0,
     returned |-> <<>>, outcome |-> "none", raised |-> "none",
     before |-> [runtime |-> NoRuntime, iterator |-> NoIterator]]

\* No transcript.replay() running. pos: the index the list iterator is at; total: the
\* number of events the transcript held when the generator ended.
NoReplay == [started |-> FALSE, pos |-> 0, yielded |-> <<>>, done |-> FALSE, total |-> 0]

\* No AgentRuntime constructed yet for the session. pulling: a call of __anext__ is
\* suspended on the stream; received: the events handled; after: the agent state
\* right after each of them; mutations: the changes the caller has made to
\* runtime.state.
NoSession ==
    [rt |-> NoRuntime, pulling |-> FALSE, received |-> <<>>, after |-> <<>>,
     mutations |-> 0]

Init ==
    /\ normalizer = NormalizerInit
    /\ buffer = <<>>
    /\ closed = FALSE
    /\ finalized = FALSE
    /\ close_lock = Free
    /\ lock_waiters = <<>>
    /\ pc = [t \in {Puller} \cup Closers |-> "idle"]
    /\ pending = NoOutcome
    /\ fetched = 0
    /\ closer_calls = 0
    /\ close_calls = 0
    /\ close_returned = FALSE
    /\ chunks_seen = <<>>
    /\ last_norm = [ok |-> TRUE, events |-> <<>>]
    /\ last_handed = 0
    /\ delivered = <<>>
    /\ pull = [kind |-> "none", event |-> None, after_close |-> FALSE,
               after_final |-> FALSE, raced |-> FALSE, race_fetched |-> 0,
               src |-> "none", after_error |-> "none"]
    /\ had_error = FALSE
    /\ streams = [s \in StreamIds |-> NoStream]
    /\ seq_counters = [g \in StreamIds |-> 0]
    /\ ts_counters = [g \in StreamIds |-> 0]
    /\ tool_spec = None
    /\ tool_again = None
    /\ bridge = None
    /\ message = None
    /\ facade = None
    /\ runtime = NoRuntime
    /\ iterator = NoIterator
    /\ consumer = NoConsumer
    /\ replay = NoReplay
    /\ fed = <<>>
    /\ session = NoSession
    /\ core = <<>>

\* aclose without its `if self._closed: return`.
already_closed_unchecked == FALSE

\* `if self._closed: return` inside the lock of aclose.
already_closed == closed

\* The consumer receives the outcome `out` of the pull p.
Outcome(p, out, handed) ==
    /\ pull' = [p EXCEPT !.kind = out.kind, !.event = out.event]
    /\ delivered' = IF out.kind = "event" THEN Append(delivered, Val(out.event))
                    ELSE delivered
    /\ last_handed' = IF out.kind = "event" THEN handed + 1 ELSE handed
    /\ had_error' = (had_error \/ out.kind = "err")

\* Lock.acquire() does not suspend: the lock is unlocked and no task waits for it
\* (`not self._locked and (self._waiters is None or all cancelled)`).
lock_available == close_lock = Free /\ lock_waiters = <<>>

\* The task t suspended in acquire() is the one release() has woken: the lock is
\* unlocked and t is the first of the waiters.
lock_woken(t) == close_lock = Free /\ lock_waiters # <<>> /\ Head(lock_waiters) = t

\* The outcome `out` reaches the consumer as __anext__ returns or raises, with
\* the buffer and the finalized flag as given.
PullerLeaves(buf, fin, handed, p, out) ==
    /\ buffer' = buf
    /\ finalized' = fin
    /\ pc' = [pc EXCEPT ![Puller] = "idle"]
    /\ pending' = NoOutcome
    /\ Outcome(p, out, handed)
    /\ UNCHANGED <<closed, close_lock, closer_calls>>

\* __anext__ returns or raises with the buffer and the finalized flag as given.
PullerReturn(buf, fin, handed, p, out) ==
    /\ PullerLeaves(buf, fin, handed, p, out)
    /\ UNCHANGED lock_waiters

\* The body of aclose() once the pull holds the lock: it returns at once on a
\* closed stream; else _close_stream calls the source's closer and suspends on
\* its result while holding the lock.
PullerCloseLocked(buf, fin, handed, p, out) ==
    IF already_closed
    THEN PullerLeaves(buf, fin, handed, p, out)
    ELSE /\ closed' = TRUE
         /\ buffer' = <<>>
         /\ finalized' = fin
         /\ last_handed' = handed
         /\ close_lock' = Puller
         /\ closer_calls' = closer_calls + 1
         /\ pc' = [pc EXCEPT ![Puller] = "closer"]
         /\ pending' = out
         /\ pull' = p
         /\ UNCHANGED <<delivered, had_error>>

\* aclose() called from inside __anext__, which goes on with `out` when it returns.
\* The lock is taken at once when it is unlocked and no task waits for it; else
\* the pull joins the waiters and suspends.
PullerAclose(buf, fin, handed, p, out) ==
    IF ~lock_available
    THEN /\ buffer' = buf
         /\ finalized' = fin
         /\ last_handed' = handed
         /\ pc' = [pc EXCEPT ![Puller] = "lock"]
         /\ lock_waiters' = Append(lock_waiters, Puller)
         /\ pending' = out
         /\ pull' = p
         /\ UNCHANGED <<closed, close_lock, closer_calls, delivered, had_error>>
    ELSE /\ PullerCloseLocked(buf, fin, handed, p, out)
         /\ UNCHANGED lock_waiters

\* PopAndFinalize whose _finalize_if_needed sets _finalized but never closes.
PopAndFinalize_NoClose(buf, handed, p) ==
    PullerReturn(Tail(buf), finalized \/ Head(buf).type = "Final", handed, p,
                 Event(Head(buf)))

\* _pop_buffered_event followed by _finalize_if_needed on a non-empty buffer `buf`.
PopAndFinalize(buf, handed, p) ==
    LET event == Head(buf)
        rest == Tail(buf)
    IN  IF event.type = "Final"
        THEN IF rest = <<>>
             THEN PullerAclose(rest, TRUE, handed, p, Event(event))
             ELSE PullerReturn(rest, TRUE, handed, p, Event(event))
        ELSE PullerReturn(rest, finalized, handed, p, Event(event))

\* The loop head without its `if self._closed: raise StopAsyncIteration`.
LoopHead_NoClosedCheck(handed, p) ==
    IF finalized /\ buffer = <<>>
    THEN PullerAclose(buffer, finalized, handed, p, Eos)
    ELSE /\ pc' = [pc EXCEPT ![Puller] = "fetch"]
         /\ last_handed' = handed
         /\ pull' = p
         /\ UNCHANGED <<buffer, closed, finalized, close_lock, lock_waiters,
                        closer_calls, pending, delivered, had_error>>

\* The head of the `while True` loop of __anext__, up to awaiting the source.
LoopHead(handed, p) ==
    IF closed THEN PullerReturn(buffer, finalized, handed, p, Eos)
    ELSE IF finalized /\ buffer = <<>>
    THEN PullerAclose(buffer, finalized, handed, p, Eos)
    ELSE /\ pc' = [pc EXCEPT ![Puller] = "fetch"]
         /\ last_handed' = handed
         /\ pull' = p
         /\ UNCHANGED <<buffer, closed, finalized, close_lock, lock_waiters,
                        closer_calls, pending, delivered, had_error>>

\* The consumer calls __anext__: the code up to the first suspension.
PullStart ==
    /\ pc[Puller] = "idle"
    /\ IF closed /\ buffer = <<>>
       THEN PullerReturn(buffer, finalized, last_handed, NewPull, Eos)
       ELSE IF buffer # <<>>
       THEN PopAndFinalize(buffer, last_handed, NewPull)
       ELSE LoopHead(last_handed, NewPull)
    /\ UNCHANGED <<normalizer, fetched, close_calls, close_returned, chunks_seen,
                   last_norm>>
    /\ UNCHANGED outside_stream

\* The source yields the chunk the pull is waiting for: _coerce_mapping,
\* normalize_chunk, then the rest of the loop body. An error of the normalizer
\* leaves __anext__ as it is raised: nothing catches it, nothing is closed.
FetchChunk ==
    /\ pc[Puller] = "fetch"
    /\ fetched < MaxChunks
    /\ \E chunk \in ChunkSet :
         LET r == normalize_chunk(normalizer, chunk)
             p == [pull EXCEPT !.src = "chunk"]
         IN  /\ normalizer' = r.st
             /\ fetched' = fetched + 1
             /\ chunks_seen' = Append(chunks_seen, chunk)
             /\ IF r.err
                THEN /\ last_norm' = [ok |-> FALSE, events |-> <<>>]
                     /\ PullerReturn(buffer, finalized, 0, p, Err)
                ELSE /\ last_norm' = [ok |-> TRUE, events |-> r.events]
                     /\ IF r.events = <<>>
                        THEN LoopHead(0, p)
                        ELSE PopAndFinalize(buffer \o r.events, 0, p)
    /\ UNCHANGED <<close_calls, close_returned>>
    /\ UNCHANGED outside_stream

\* FetchEnd that re-raises StopAsyncIteration without `await self.aclose()`.
FetchEnd_NoClose ==
    /\ pc[Puller] = "fetch"
    /\ PullerReturn(buffer, finalized, last_handed, [pull EXCEPT !.src = "end"], Eos)
    /\ UNCHANGED <<normalizer, fetched, close_calls, close_returned, chunks_seen,
                   last_norm>>
    /\ UNCHANGED outside_stream

\* The source raises StopAsyncIteration: _consume_chunk closes and re-raises.
FetchEnd ==
    /\ pc[Puller] = "fetch"
    /\ PullerAclose(buffer, finalized, last_handed, [pull EXCEPT !.src = "end"], Eos)
    /\ UNCHANGED <<normalizer, fetched, close_calls, close_returned, chunks_seen,
                   last_norm>>
    /\ UNCHANGED outside_stream

\* FetchError that raises AdapterStreamError without `await self.aclose()`.
FetchError_NoClose ==
    /\ pc[Puller] = "fetch"
    /\ PullerReturn(buffer, finalized, last_handed, [pull EXCEPT !.src = "error"], Err)
    /\ UNCHANGED <<normalizer, fetched, close_calls, close_returned, chunks_seen,
                   last_norm>>
    /\ UNCHANGED outside_stream

\* The source raises another exception: _consume_chunk closes and raises
\* AdapterStreamError.
FetchError ==
    /\ pc[Puller] = "fetch"
    /\ PullerAclose(buffer, finalized, last_handed, [pull EXCEPT !.src = "error"], Err)
    /\ UNCHANGED <<normalizer, fetched, close_calls, close_returned, chunks_seen,
                   last_norm>>
    /\ UNCHANGED outside_stream

\* The pull, woken by release(), leaves the waiters and takes the lock it was
\* waiting for inside aclose().
PullerLockAcquired ==
    /\ pc[Puller] = "lock"
    /\ lock_woken(Puller)
    /\ lock_waiters' = Tail(lock_waiters)
    /\ PullerCloseLocked(buffer, finalized, last_handed, pull, pending)
    /\ UNCHANGED <<normalizer, fetched, close_calls, close_returned, chunks_seen,
                   last_norm>>
    /\ UNCHANGED outside_stream

\* The source's closer completes for the pull: the lock is released and
\* __anext__ returns or raises.
PullerCloserDone ==
    /\ pc[Puller] = "closer"
    /\ close_lock' = Free
    /\ pc' = [pc EXCEPT ![Puller] = "idle"]
    /\ pending' = NoOutcome
    /\ Outcome(pull, pending, last_handed)
    /\ UNCHANGED <<normalizer, buffer, closed, finalized, lock_waiters, fetched,
                   closer_calls, close_calls, close_returned, chunks_seen, last_norm>>
    /\ UNCHANGED outside_stream

\* The body of aclose() once the consumer task c holds the lock.
CloseLocked(c) ==
    IF already_closed
    THEN /\ pc' = [pc EXCEPT ![c] = "idle"]
         /\ close_returned' = TRUE
         /\ UNCHANGED <<buffer, closed, close_lock, closer_calls>>
    ELSE /\ closed' = TRUE
         /\ buffer' = <<>>
         /\ close_lock' = c
         /\ closer_calls' = closer_calls + 1
         /\ pc' = [pc EXCEPT ![c] = "closer"]
         /\ UNCHANGED close_returned

\* CloseCall with `if self._closed: return` made before the lock is taken.
CloseCall_ClosedCheckFirst(c) ==
    /\ pc[c] = "idle"
    /\ \A d \in Closers : d < c => pc[d] # "idle"
    /\ close_calls < MaxCloseCalls
    /\ close_calls' = close_calls + 1
    /\ IF closed
       THEN /\ close_returned' = TRUE
            /\ UNCHANGED <<pc, buffer, closed, close_lock, lock_waiters, closer_calls>>
       ELSE IF ~lock_available
       THEN /\ pc' = [pc EXCEPT ![c] = "lock"]
            /\ lock_waiters' = Append(lock_waiters, c)
            /\ UNCHANGED <<buffer, closed, close_lock, closer_calls, close_returned>>
       ELSE /\ CloseLocked(c)
            /\ UNCHANGED lock_waiters
    /\ pull' = IF pc[Puller] = "fetch" /\ ~pull.raced
               THEN [pull EXCEPT !.raced = TRUE, !.race_fetched = fetched]
               ELSE pull
    /\ UNCHANGED <<normalizer, finalized, pending, fetched, chunks_seen, last_norm,
                   last_handed, delivered, had_error>>
    /\ UNCHANGED outside_stream

\* A consumer task calls aclose(): the code up to the first suspension, which is
\* in acquire() when the lock is held or other tasks wait for it. The tasks are
\* interchangeable, so the idle task with the smallest number makes the call.
CloseCall(c) ==
    /\ pc[c] = "idle"
    /\ \A d \in Closers : d < c => pc[d] # "idle"
    /\ close_calls < MaxCloseCalls
    /\ close_calls' = close_calls + 1
    /\ IF ~lock_available
       THEN /\ pc' = [pc EXCEPT ![c] = "lock"]
            /\ lock_waiters' = Append(lock_waiters, c)
            /\ UNCHANGED <<buffer, closed, close_lock, closer_calls, close_returned>>
       ELSE /\ CloseLocked(c)
            /\ UNCHANGED lock_waiters
    /\ pull' = IF pc[Puller] = "fetch" /\ ~pull.raced
               THEN [pull EXCEPT !.raced = TRUE, !.race_fetched = fetched]
               ELSE pull
    /\ UNCHANGED <<normalizer, finalized, pending, fetched, chunks_seen, last_norm,
                   last_handed, delivered, had_error>>
    /\ UNCHANGED outside_stream

\* A consumer task, woken by release(), leaves the waiters and takes the lock.
CloseLockAcquired(c) ==
    /\ pc[c] = "lock"
    /\ lock_woken(c)
    /\ lock_waiters' = Tail(lock_waiters)
    /\ CloseLocked(c)
    /\ UNCHANGED <<normalizer, finalized, pending, fetched, close_calls, chunks_seen,
                   last_norm, last_handed, delivered, pull, had_error>>
    /\ UNCHANGED outside_stream

\* The source's closer completes for a consumer task: aclose() returns.
CloseCloserDone(c) ==
    /\ pc[c] = "closer"
    /\ close_lock' = Free
    /\ pc' = [pc EXCEPT ![c] = "idle"]
    /\ close_returned' = TRUE
    /\ UNCHANGED <<normalizer, buffer, closed, finalized, lock_waiters, pending, fetched,
                   closer_calls, close_calls, chunks_seen, last_norm, last_handed,
                   delivered, pull, had_error>>
    /\ UNCHANGED outside_stream

Next ==
    \/ PullStart
    \/ FetchChunk
    \/ FetchEnd
    \/ FetchError
    \/ PullerLockAcquired
    \/ PullerCloserDone
    \/ \E c \in Closers : CloseCall(c)
    \/ \E c \in Closers : CloseLockAcquired(c)
    \/ \E c \in Closers : CloseCloserDone(c)

Spec == Init /\ [][Next]_vars

(* ---- BaseStreamIterator (src/foundry/core/adapters/stream.py) ---- *)
(* The core iterator keeps the same fields as _OpenAIStream (_normalizer,  *)
(* _buffer, _closed, _finalized, _close_lock) and is modelled on the same  *)
(* variables; closer_calls counts the calls of _on_close. Its normalizer   *)
(* is any StreamNormalizer: here a stateless one that returns the batch   *)
(* of events written in the chunk, as the one of MockStreamIterator does,  *)
(* so the variable normalizer does not change.                             *)

CoreTokenEvent(content, index) ==
    [type |-> "Token", content |-> content, index |-> index]

CoreToolCallEvent(id, name, args_fragment, is_final) ==
    [type |-> "ToolCall", id |-> id, name |-> name, args_fragment |-> args_fragment,
     is_final |-> is_final]

CoreToolResultEvent(id, output) ==
    [type |-> "ToolResult", id |-> id, output |-> output]

CoreFinalEvent(output, total_tokens) ==
    [type |-> "Final", output |-> output, total_tokens |-> total_tokens]

\* A chunk of the in-memory source: {"events": [...]}.
EventsChunk(events) == [events |-> events]

\* _MockStreamNormalizer.normalize_chunk: list(chunk.get("events", []))
mock_normalize_chunk(chunk) == chunk.events

\* MockStreamIterator._make_events(scenario): the events of a scripted scenario;
\* any other scenario raises ValueError.
MockScenarios == {"simple", "tool_call"}
make_events(scenario) ==
    IF scenario = "simple"
    THEN [ok |-> TRUE,
          events |-> << CoreTokenEvent("Hello", 0),
                        CoreTokenEvent(", world", 1),
                        CoreFinalEvent("Hello, world", Some(4)) >>]
    ELSE IF scenario = "tool_call"
    THEN [ok |-> TRUE,
          events |-> << CoreTokenEvent("Calling calculator", 0),
                        CoreToolCallEvent("tool-1", "sum", "{\"a\": 1", FALSE),
                        CoreToolCallEvent("tool-1", "sum", ", \"b\": 3}", TRUE),
                        CoreToolResultEvent("tool-1", "Sum is 4"),
                        CoreFinalEvent("Sum is 4", Some(6)) >>]
    ELSE [ok |-> FALSE, events |-> <<>>]

\* MockStreamIterator._get_next_chunk: the chunks the source of a scenario yields,
\* one event per chunk, in order.
MockChunks(scenario) ==
    [i \in 1..Len(make_events(scenario).events) |->
        EventsChunk(<<make_events(scenario).events[i]>>)]

\* The batches of a BaseStreamIterator whose normalizer returns several events, or
\* none, for one chunk (DummyNormalizer of tests/adapters/test_stream_events.py): an
\* empty batch, a Final as the last event, two fragments of a tool call, a tool
\* result with the Final, and a Final that is not the last event.
BatchChunkSet ==
    { EventsChunk(<<>>),
      EventsChunk(<<CoreTokenEvent("A", 0), CoreFinalEvent("done", None)>>),
      EventsChunk(<<CoreToolCallEvent("tool-1", "sum", "{\"a\": 1", FALSE),
                    CoreToolCallEvent("tool-1", "sum", ", \"b\": 3}", TRUE)>>),
      EventsChunk(<<CoreToolResultEvent("tool-1", "Sum is 4"),
                    CoreFinalEvent("Sum is 4", Some(6))>>),
      EventsChunk(<<CoreFinalEvent("done", None), CoreTokenEvent("extra", 1)>>) }

\* The chunks the source of the iterator may yield, each written as the batch its
\* normalizer returns for it: the chunks of the two MockStreamIterator scenarios
\* and the batches of another subclass.
BaseChunkSet ==
    UNION { { MockChunks(scenario)[i] : i \in 1..Len(MockChunks(scenario)) } :
                scenario \in MockScenarios }
    \cup BatchChunkSet

\* The source may yield `chunk` after the chunks in `seen`: it yields at most
\* MaxChunks chunks, or it is the source of a MockStreamIterator scenario, which
\* yields every chunk of the scenario.
BaseMayYield(seen, chunk) ==
    \/ Len(seen) < MaxChunks
    \/ \E scenario \in MockScenarios :
         /\ Len(seen) < Len(MockChunks(scenario))
         /\ Append(seen, chunk) = SubSeq(MockChunks(scenario), 1, Len(seen) + 1)

\* close() awaited from __anext__: the same code as aclose() of _OpenAIStream, with
\* _on_close in the place of _close_stream.
BaseClose(buf, fin, handed, p, out) == PullerAclose(buf, fin, handed, p, out)

\* BasePopAndFinalize with pop() (the newest event) in the place of popleft().
BasePopAndFinalize_PopRight(buf, handed, p) ==
    LET event == buf[Len(buf)]
        rest == SubSeq(buf, 1, Len(buf) - 1)
    IN  IF event.type = "Final"
        THEN IF rest = <<>>
             THEN BaseClose(rest, TRUE, handed, p, Event(event))
             ELSE PullerReturn(rest, TRUE, handed, p, Event(event))
        ELSE PullerReturn(rest, finalized, handed, p, Event(event))

\* _pop_buffered_event followed by _finalize_if_needed on a non-empty buffer `buf`.
BasePopAndFinalize(buf, handed, p) ==
    LET event == Head(buf)
        rest == Tail(buf)
    IN  IF event.type = "Final"
        THEN IF rest = <<>>
             THEN BaseClose(rest, TRUE, handed, p, Event(event))
             ELSE PullerReturn(rest, TRUE, handed, p, Event(event))
        ELSE PullerReturn(rest, finalized, handed, p, Event(event))

\* The head of the `while True` loop of BaseStreamIterator.__anext__.
BaseLoopHead(handed, p) ==
    IF closed THEN PullerReturn(buffer, finalized, handed, p, Eos)
    ELSE IF finalized
    THEN BaseClose(buffer, finalized, handed, p, Eos)
    ELSE /\ pc' = [pc EXCEPT ![Puller] = "fetch"]
         /\ last_handed' = handed
         /\ pull' = p
         /\ UNCHANGED <<buffer, closed, finalized, close_lock, lock_waiters,
                        closer_calls, pending, delivered, had_error>>

\* The consumer calls BaseStreamIterator.__anext__: the code up to the first
\* suspension.
BasePullStart ==
    /\ pc[Puller] = "idle"
    /\ IF closed /\ buffer = <<>>
       THEN PullerReturn(buffer, finalized, last_handed, NewPull, Eos)
       ELSE IF finalized /\ buffer = <<>>
       THEN BaseClose(buffer, finalized, last_handed, NewPull, Eos)
       ELSE IF buffer # <<>>
       THEN BasePopAndFinalize(buffer, last_handed, NewPull)
       ELSE BaseLoopHead(last_handed, NewPull)
    /\ UNCHANGED <<normalizer, fetched, close_calls, close_returned, chunks_seen,
                   last_norm>>
    /\ UNCHANGED outside_stream

\* _get_next_chunk returns a chunk: normalize_chunk, then the rest of the loop body.
BaseFetchChunk ==
    /\ pc[Puller] = "fetch"
    /\ \E chunk \in BaseChunkSet :
         LET events == mock_normalize_chunk(chunk)
             p == [pull EXCEPT !.src = "chunk"]
         IN  /\ BaseMayYield(chunks_seen, chunk)
             /\ fetched' = fetched + 1
             /\ chunks_seen' = Append(chunks_seen, chunk)
             /\ last_norm' = [ok |-> TRUE, events |-> events]
             /\ IF events = <<>>
                THEN BaseLoopHead(0, p)
                ELSE BasePopAndFinalize(buffer \o events, 0, p)
    /\ UNCHANGED <<normalizer, close_calls, close_returned>>
    /\ UNCHANGED outside_stream

\* _get_next_chunk raises StopAsyncIteration: _consume_chunk closes and re-raises.
BaseFetchEnd ==
    /\ pc[Puller] = "fetch"
    /\ BaseClose(buffer, finalized, last_handed, [pull EXCEPT !.src = "end"], Eos)
    /\ UNCHANGED <<normalizer, fetched, close_calls, close_returned, chunks_seen,
                   last_norm>>
    /\ UNCHANGED outside_stream

\* _get_next_chunk raises another exception: _consume_chunk has no handler for it,
\* it leaves __anext__ as it is and nothing is closed.
BaseFetchError ==
    /\ pc[Puller] = "fetch"
    /\ PullerReturn(buffer, finalized, last_handed, [pull EXCEPT !.src = "error"], Err)
    /\ UNCHANGED <<normalizer, fetched, close_calls, close_returned, chunks_seen,
                   last_norm>>
    /\ UNCHANGED outside_stream

\* The pull gets the lock it was waiting for inside close().
BasePullerLockAcquired == PullerLockAcquired

\* _on_close completes for the pull: the lock is released and __anext__ returns or
\* raises.
BasePullerCloserDone == PullerCloserDone

\* A consumer task calls close(): the code up to the first suspension.
BaseCloseCall(c) == CloseCall(c)

\* A consumer task gets the lock it was waiting for.
BaseCloseLockAcquired(c) == CloseLockAcquired(c)

\* _on_close completes for a consumer task: close() returns.
BaseCloseCloserDone(c) == CloseCloserDone(c)

NextBase ==
    \/ BasePullStart
    \/ BaseFetchChunk
    \/ BaseFetchEnd
    \/ BaseFetchError
    \/ BasePullerLockAcquired
    \/ BasePullerCloserDone
    \/ \E c \in Closers : BaseCloseCall(c)
    \/ \E c \in Closers : BaseCloseLockAcquired(c)
    \/ \E c \in Closers : BaseCloseCloserDone(c)

SpecBase == Init /\ [][NextBase]_vars

(* ---- OpenAIAdapter.stream: several streams of one adapter ---- *)
(* Each call of stream() wraps a new provider source in a new            *)
(* _OpenAIStream with a new _OpenAINormalizer. The normalizer calls the  *)
(* two closures it was given; a closure is named by a number and its     *)
(* counter lives in seq_counters / ts_counters, so that which normalizer *)
(* holds which closure is part of the state. Every stream has one        *)
(* consumer, which pulls and never calls aclose() itself.                *)

MaxStreamChunks == 3

\* seq_factory=monotonic_seq() with one closure made once and given to every stream.
shared_seq_factory(s) == 1

\* seq_factory=monotonic_seq(): a new closure, over a new count(0), per call.
new_seq_factory(s) == s

\* ts_factory=stable_ts() with one closure made once and given to every stream.
shared_ts_factory(s) == 1

\* ts_factory=stable_ts(): a new closure, over a new count(), per call.
new_ts_factory(s) == s

\* The chunks the provider sources of these streams may yield: a token, a tool
\* result with a token and a whole tool call, a terminal chunk, a rejected chunk.
AdapterChunkSet ==
    { Chunk(None, OneChoice(Delta(Some("a"), None), None), None),
      Chunk(ResultA, OneChoice(Delta(Some("c"), Some(<<WholeCall(1, "call_b")>>)),
                               Some("tool_calls")), None),
      Chunk(None, OneChoice(Delta(None, None), Some("stop")), Some(Usage(Some(4)))),
      Chunk(None, OneChoice(Delta(Some("g"),
                Some(<<ToolCallDelta(0, Some(""), None, None)>>)), None), None) }

\* __anext__ of the stream r raises end-of-stream or an error.
raise(r, kind) == [r EXCEPT !.waiting = FALSE, !.outcome = kind]

\* __anext__ of the stream r ends as `out` says: it returns the event or raises.
finish(r, out) ==
    IF out.kind = "event"
    THEN [r EXCEPT !.delivered = Append(@, Val(out.event)), !.waiting = FALSE,
                   !.outcome = "event"]
    ELSE raise(r, out.kind)

\* `await self.aclose()` inside __anext__ of the stream r, which then ends as `out`
\* says. The stream has one consumer, so the lock is free. On a closed stream
\* aclose() returns at once; otherwise it runs up to `await self._close_stream()`,
\* where the pull is suspended until the source's closer completes.
aclose(r, out) ==
    IF r.closed THEN finish(r, out)
    ELSE [r EXCEPT !.closed = TRUE, !.buffer = <<>>, !.closer_calls = @ + 1,
                   !.waiting = FALSE, !.closing = TRUE, !.pending = out,
                   !.outcome = "running"]

\* _pop_buffered_event and _finalize_if_needed on the stream r, whose buffer is
\* not empty: __anext__ returns the event, after aclose() when the event is a
\* Final that leaves the buffer empty.
pop_buffered_event(r) ==
    LET event == Head(r.buffer)
        rest == Tail(r.buffer)
        r1 == [r EXCEPT !.buffer = rest]
    IN  IF event.type = "Final"
        THEN IF rest = <<>> THEN aclose([r1 EXCEPT !.finalized = TRUE], Event(event))
             ELSE finish([r1 EXCEPT !.finalized = TRUE], Event(event))
        ELSE finish(r1, Event(event))

\* The head of the `while True` loop of __anext__, up to awaiting the source.
loop_head(r) ==
    IF r.closed THEN raise(r, "eos")
    ELSE IF r.finalized /\ r.buffer = <<>> THEN aclose(r, Eos)
    ELSE [r EXCEPT !.waiting = TRUE, !.outcome = "running"]

\* __anext__ of the stream r, up to its first suspension.
anext(r) ==
    IF r.closed /\ r.buffer = <<>> THEN raise(r, "eos")
    ELSE IF r.buffer # <<>> THEN pop_buffered_event(r)
    ELSE loop_head(r)

\* OpenAIAdapter.stream: the s-th call. The adapter keeps nothing about the call.
AdapterStream(s) ==
    /\ ~streams[s].created
    /\ \A t \in StreamIds : t < s => streams[t].created
    /\ streams' = [streams EXCEPT ![s] =
                       [NoStream EXCEPT !.created = TRUE,
                                        !.seq_factory = new_seq_factory(s),
                                        !.ts_factory = new_ts_factory(s)]]
    /\ UNCHANGED <<seq_counters, ts_counters>>
    /\ UNCHANGED outside_adapter

\* The consumer of stream s, which is not inside a pull, calls __anext__.
StreamPull(s) ==
    /\ streams[s].created
    /\ ~streams[s].waiting
    /\ ~streams[s].closing
    /\ streams' = [streams EXCEPT ![s] = anext(@)]
    /\ UNCHANGED <<seq_counters, ts_counters>>
    /\ UNCHANGED outside_adapter

\* The source of stream s yields the chunk its pull is waiting for. The normalizer
\* draws seq_id and ts from the closures it holds.
StreamChunk(s) ==
    LET r == streams[s]
    IN  /\ r.waiting
        /\ Len(r.chunks) < MaxStreamChunks
        /\ \E chunk \in AdapterChunkSet :
             LET st == [r.normalizer EXCEPT !.seq_calls = seq_counters[r.seq_factory],
                                            !.ts_calls = ts_counters[r.ts_factory]]
                 n == normalize_chunk(st, chunk)
                 r1 == [r EXCEPT !.normalizer = n.st, !.chunks = Append(@, chunk)]
             IN  /\ seq_counters' = [seq_counters EXCEPT ![r.seq_factory] = n.st.seq_calls]
                 /\ ts_counters' = [ts_counters EXCEPT ![r.ts_factory] = n.st.ts_calls]
                 /\ streams' = [streams EXCEPT ![s] =
                        IF n.err THEN raise(r1, "err")
                        ELSE IF n.events = <<>> THEN loop_head(r1)
                        ELSE pop_buffered_event([r1 EXCEPT !.buffer = @ \o n.events])]
        /\ UNCHANGED outside_adapter

\* The source of stream s ends: _consume_chunk closes and re-raises.
StreamEnd(s) ==
    /\ streams[s].waiting
    /\ streams' = [streams EXCEPT ![s] = aclose(@, Eos)]
    /\ UNCHANGED <<seq_counters, ts_counters>>
    /\ UNCHANGED outside_adapter

\* The closer of the source of stream s completes: aclose() returns to the
\* suspended __anext__, which returns its event or raises.
StreamCloserDone(s) ==
    /\ streams[s].closing
    /\ streams' = [streams EXCEPT ![s] =
                       finish([@ EXCEPT !.closing = FALSE, !.pending = NoOutcome],
                              @.pending)]
    /\ UNCHANGED <<seq_counters, ts_counters>>
    /\ UNCHANGED outside_adapter

NextAdapter ==
    \/ \E s \in StreamIds : AdapterStream(s)
    \/ \E s \in StreamIds : StreamPull(s)
    \/ \E s \in StreamIds : StreamChunk(s)
    \/ \E s \in StreamIds : StreamEnd(s)
    \/ \E s \in StreamIds : StreamCloserDone(s)

SpecAdapter == Init /\ [][NextAdapter]_vars

(* ---- ToolSpec (src/foundry/core/adapters/toolbridge.py) ---- *)
(* A Python value that can occur in tool parameters is a record [tag, v]: *)
(*   None, bool, int, str      tag "null", "bool", "int", "str"           *)
(*   float                     tag "float", v its repr                     *)
(*   dict, MappingProxyType    tag "dict", "proxy", v a function on keys   *)
(*   list, tuple               tag "list", "tuple", v a sequence           *)
(*   set                       tag "set" (a type JSON does not have)       *)

JNull == [tag |-> "null", v |-> "None"]
JBool(b) == [tag |-> "bool", v |-> b]
JInt(n) == [tag |-> "int", v |-> n]
JFloat(repr) == [tag |-> "float", v |-> repr]
JStr(x) == [tag |-> "str", v |-> x]
JDict(f) == [tag |-> "dict", v |-> f]
JProxy(f) == [tag |-> "proxy", v |-> f]
JList(q) == [tag |-> "list", v |-> q]
JTuple(q) == [tag |-> "tuple", v |-> q]
JSet == [tag |-> "set", v |-> "set()"]

\* The reprs of the floats that math.isfinite refuses: nan, inf and -inf.
NonFinite == {"nan", "inf", "-inf"}

IsMapping(x) == x.tag \in {"dict", "proxy"}
IsSequence(x) == x.tag \in {"list", "tuple"}

\* mapping.get(key): None when the key is missing.
dict_get(x, key) == IF key \in DOMAIN x.v THEN x.v[key] ELSE JNull

\* _NAME_PATTERN.fullmatch(name) on the names used as input: "get_weather" and
\* "sum-2" match ^[a-zA-Z0-9_-]{1,64}$, the empty name and "bad name" do not.
name_pattern_fullmatch(name) == name \in {"get_weather", "sum-2"}

\* str.strip() on the descriptions used as input.
strip(x) ==
    CASE x = "  d " -> "d"
      [] x = "   " -> ""
      [] OTHER -> x

\* _ensure_json_compatible: TRUE when it returns, FALSE when it raises AdapterError.
RECURSIVE ensure_json_compatible(_)
ensure_json_compatible(value) ==
    IF IsMapping(value)
    THEN \A key \in DOMAIN value.v : key # "" /\ ensure_json_compatible(value.v[key])
    ELSE IF IsSequence(value)
    THEN \A i \in 1..Len(value.v) : ensure_json_compatible(value.v[i])
    ELSE IF value.tag \in {"bool", "null", "str"} THEN TRUE
    ELSE IF value.tag \in {"int", "float"}
    THEN ~(value.tag = "float" /\ value.v \in NonFinite)
    ELSE FALSE

\* json.dumps(value, allow_nan=False) returns: it serialises dict, list, tuple, str,
\* int, finite float, bool and None, and raises TypeError on any other object, a
\* MappingProxyType included.
RECURSIVE json_dumps_ok(_)
json_dumps_ok(value) ==
    IF value.tag = "dict"
    THEN \A key \in DOMAIN value.v : json_dumps_ok(value.v[key])
    ELSE IF IsSequence(value)
    THEN \A i \in 1..Len(value.v) : json_dumps_ok(value.v[i])
    ELSE IF value.tag = "float" THEN value.v \notin NonFinite
    ELSE value.tag \in {"bool", "null", "str", "int"}

\* json.loads(json.dumps(value)): tuples come back as lists.
RECURSIVE json_round_trip(_)
json_round_trip(value) ==
    IF value.tag = "dict"
    THEN JDict([key \in DOMAIN value.v |-> json_round_trip(value.v[key])])
    ELSE IF IsSequence(value)
    THEN JList([i \in 1..Len(value.v) |-> json_round_trip(value.v[i])])
    ELSE value

\* _freeze_nested_json
RECURSIVE freeze_nested_json(_)
freeze_nested_json(value) ==
    IF value.tag = "dict"
    THEN JProxy([key \in DOMAIN value.v |-> freeze_nested_json(value.v[key])])
    ELSE IF value.tag = "list"
    THEN JTuple([i \in 1..Len(value.v) |-> freeze_nested_json(value.v[i])])
    ELSE value

\* _freeze_json_structure on a dict.
freeze_json_structure(value) ==
    JProxy([key \in DOMAIN value.v |-> freeze_nested_json(value.v[key])])

\* The outcome of a construction: the instance, or AdapterError.
Constructed(spec) == [ok |-> TRUE, value |-> Some(spec)]
AdapterError == [ok |-> FALSE, value |-> None]

\* ToolSpec(name=name, parameters=parameters, description=description), that is
\* __post_init__ on the three fields.
ToolSpec(name, parameters, description) ==
    LET stripped == IF IsNone(description) THEN "" ELSE strip(Val(description))
        normalized_description == IF IsNone(description) THEN None ELSE Some(stripped)
        raw_parameters == JDict(parameters.v)
        sanitized == json_round_trip(raw_parameters)
        type == dict_get(sanitized, "type")
        properties == dict_get(sanitized, "properties")
        required == dict_get(sanitized, "required")
        BadItem(item) ==
            \/ item.tag # "str"
            \/ item.v = ""
            \/ item.v \notin DOMAIN properties.v
    IN  IF ~name_pattern_fullmatch(name) THEN AdapterError
        ELSE IF ~IsNone(description) /\ stripped = "" THEN AdapterError
        ELSE IF ~IsMapping(parameters) THEN AdapterError
        ELSE IF ~ensure_json_compatible(raw_parameters) THEN AdapterError
        ELSE IF ~json_dumps_ok(raw_parameters) THEN AdapterError
        ELSE IF ~(type.tag = "str" /\ type.v = "object") THEN AdapterError
        ELSE IF properties.tag # "dict" THEN AdapterError
        ELSE IF \E key \in DOMAIN properties.v : key = "" THEN AdapterError
        ELSE IF required.tag \notin {"null", "list"} THEN AdapterError
        ELSE IF required.tag = "list" /\ \E i \in 1..Len(required.v) : BadItem(required.v[i])
        THEN AdapterError
        ELSE Constructed([name |-> name,
                          description |-> normalized_description,
                          parameters |-> freeze_json_structure(sanitized)])

Dict1(k1, v1) == [key \in {k1} |-> v1]
Dict2(k1, v1, k2, v2) == [key \in {k1, k2} |-> IF key = k1 THEN v1 ELSE v2]
Dict3(k1, v1, k2, v2, k3, v3) ==
    [key \in {k1, k2, k3} |-> IF key = k1 THEN v1 ELSE IF key = k2 THEN v2 ELSE v3]

\* {"type": "object", "properties": properties}
ObjectSchema(properties) == JDict(Dict2("type", JStr("object"), "properties", properties))

\* {"type": "object", "properties": {"a": {"type": "string"}}, "required": required}
SchemaA(required) ==
    JDict(Dict3("type", JStr("object"),
                "properties", JDict(Dict1("a", JDict(Dict1("type", JStr("string"))))),
                "required", required))

\* Constructor arguments a caller may pass.
NameInputs == <<"get_weather", "sum-2", "", "bad name">>
DescriptionInputs == <<None, Some("d"), Some("  d "), Some("   "), Some("")>>
ParameterInputs ==
    << ObjectSchema(JDict(EmptyDict)),
       SchemaA(JList(<<JStr("a")>>)),
       SchemaA(JTuple(<<JStr("a")>>)),
       SchemaA(JNull),
       SchemaA(JList(<<>>)),
       JProxy(Dict2("type", JStr("object"), "properties", JDict(EmptyDict))),
       SchemaA(JList(<<JStr("b")>>)),
       SchemaA(JList(<<JStr("")>>)),
       SchemaA(JList(<<JInt(1)>>)),
       SchemaA(JStr("a")),
       JDict(Dict2("type", JStr("string"), "properties", JDict(EmptyDict))),
       JDict(Dict1("type", JStr("object"))),
       JDict(Dict1("properties", JDict(EmptyDict))),
       ObjectSchema(JList(<<>>)),
       ObjectSchema(JDict(Dict1("", JDict(EmptyDict)))),
       ObjectSchema(JDict(Dict1("a", JDict(Dict1("default", JFloat("nan")))))),
       ObjectSchema(JDict(Dict1("a", JDict(Dict1("default", JFloat("1.5")))))),
       ObjectSchema(JDict(Dict1("a", JDict(Dict1("enum", JSet))))),
       ObjectSchema(JDict(Dict1("a", JDict(Dict1("nullable", JBool(TRUE)))))),
       JList(<<>>) >>

\* A caller constructs a ToolSpec.
ToolSpecConstruct ==
    /\ \E i \in 1..Len(NameInputs), j \in 1..Len(DescriptionInputs),
          k \in 1..Len(ParameterInputs) :
         LET args == [name |-> NameInputs[i], description |-> DescriptionInputs[j],
                      parameters |-> ParameterInputs[k]]
         IN  tool_spec' = Some([args |-> args,
                                result |-> ToolSpec(args.name, args.parameters,
                                                    args.description)])
    /\ tool_again' = None
    /\ UNCHANGED outside_tools

\* A caller constructs a ToolSpec again from the name, the description and the
\* frozen parameters of the valid ToolSpec s it holds.
ToolSpecConstructAgain ==
    /\ ~IsNone(tool_spec)
    /\ Val(tool_spec).result.ok
    /\ IsNone(tool_again)
    /\ LET s == Val(Val(tool_spec).result.value)
       IN  tool_again' = Some(ToolSpec(s.name, s.parameters, s.description))
    /\ UNCHANGED tool_spec
    /\ UNCHANGED outside_tools

NextTools ==
    \/ ToolSpecConstruct
    \/ ToolSpecConstructAgain

SpecTools == Init /\ [][NextTools]_vars

(* ---- tool bridge: tool calls (toolbridge.py, message.py) ---- *)

\* The order in which the dicts below list their keys (a Python dict keeps the
\* order of insertion, and json.dumps writes the keys in that order).
KeyOrder == <<"a", "b">>

keys_in_order(d) == SelectSeq(KeyOrder, LAMBDA key : key \in DOMAIN d)

\* ", ".join(items)
RECURSIVE JoinItems(_)
JoinItems(items) ==
    IF items = <<>> THEN ""
    ELSE IF Len(items) = 1 THEN items[1]
    ELSE items[1] \o ", " \o JoinItems(Tail(items))

\* The body of a JSON string literal for the strings used below: json.dumps writes
\* a double quote as \" and leaves letters, digits and "_" as they are.
json_escape(x) ==
    CASE x = "q\"t" -> "q\\\"t"
      [] OTHER -> x

\* json.dumps(value, allow_nan=False) on a value it serialises: the separators are
\* ", " and ": ", a tuple is written as a list, a float by its repr.
RECURSIVE json_dumps(_)
json_dumps(value) ==
    CASE value.tag = "dict" ->
           LET keys == keys_in_order(value.v)
           IN  "{" \o JoinItems([i \in 1..Len(keys) |->
                                   "\"" \o json_escape(keys[i]) \o "\": "
                                        \o json_dumps(value.v[keys[i]])]) \o "}"
      [] IsSequence(value) ->
           "[" \o JoinItems([i \in 1..Len(value.v) |-> json_dumps(value.v[i])]) \o "]"
      [] value.tag = "str" -> "\"" \o json_escape(value.v) \o "\""
      [] value.tag = "int" -> ToString(value.v)
      [] value.tag = "float" -> value.v
      [] value.tag = "bool" -> IF value.v THEN "true" ELSE "false"
      [] value.tag = "null" -> "null"

Decoded(value) == [ok |-> TRUE, value |-> Some(value)]
JSONDecodeError == [ok |-> FALSE, value |-> None]

\* json.loads(text) on the texts that occur as arguments below: a later duplicate
\* of a key replaces the earlier one, NaN is read as the float nan, and a text that
\* is not a JSON document (the empty text among them) is a JSONDecodeError.
json_loads(text) ==
    CASE text = "{}" -> Decoded(JDict(EmptyDict))
      [] text = "{\"a\": 1}" -> Decoded(JDict(Dict1("a", JInt(1))))
      [] text = "{\"a\":1}" -> Decoded(JDict(Dict1("a", JInt(1))))
      [] text = "{\"a\": 2}" -> Decoded(JDict(Dict1("a", JInt(2))))
      [] text = "{\"a\": 1, \"a\": 2}" -> Decoded(JDict(Dict1("a", JInt(2))))
      [] text = "{\"a\": [1, 2]}" -> Decoded(JDict(Dict1("a", JList(<<JInt(1), JInt(2)>>))))
      [] text = "{\"a\": [1, {\"b\": null}], \"b\": 1.5}" ->
           Decoded(JDict(Dict2("a", JList(<<JInt(1), JDict(Dict1("b", JNull))>>),
                               "b", JFloat("1.5"))))
      [] text = "{\"a\": \"q\\\"t\"}" -> Decoded(JDict(Dict1("a", JStr("q\"t"))))
      [] text = "{\"a\": true}" -> Decoded(JDict(Dict1("a", JBool(TRUE))))
      [] text = "{\"a\": NaN}" -> Decoded(JDict(Dict1("a", JFloat("nan"))))
      [] text = "{\"\": 1}" -> Decoded(JDict(Dict1("", JInt(1))))
      [] text = "[1]" -> Decoded(JList(<<JInt(1)>>))
      [] OTHER -> JSONDecodeError

\* mapping.get(key, default)
dict_get_default(x, key, default) == IF key \in DOMAIN x.v THEN x.v[key] ELSE default

\* toolbridge._thaw_json_structure: mappings become dicts and tuples lists; a list
\* is returned as it is.
RECURSIVE thaw_json_structure(_)
thaw_json_structure(value) ==
    IF IsMapping(value)
    THEN JDict([key \in DOMAIN value.v |-> thaw_json_structure(value.v[key])])
    ELSE IF value.tag = "tuple"
    THEN JList([i \in 1..Len(value.v) |-> thaw_json_structure(value.v[i])])
    ELSE value

\* message._thaw_json_structure: mappings become dicts, lists and tuples lists.
RECURSIVE message_thaw_json_structure(_)
message_thaw_json_structure(value) ==
    IF IsMapping(value)
    THEN JDict([key \in DOMAIN value.v |-> message_thaw_json_structure(value.v[key])])
    ELSE IF IsSequence(value)
    THEN JList([i \in 1..Len(value.v) |-> message_thaw_json_structure(value.v[i])])
    ELSE value

\* The keys of the dict d in the order a loop over it meets them: those of
\* KeyOrder, then a key outside it (the dicts checked below hold at most one).
RECURSIVE KeysOf(_)
KeysOf(keys) ==
    IF keys = {} THEN <<>>
    ELSE LET key == CHOOSE k \in keys : TRUE IN <<key>> \o KeysOf(keys \ {key})
items_in_order(d) ==
    keys_in_order(d) \o KeysOf({key \in DOMAIN d : key \notin {"a", "b"}})

\* The first exception among those of a loop, "" when no iteration raised.
RECURSIVE first_error(_)
first_error(errors) ==
    IF errors = <<>> THEN ""
    ELSE IF Head(errors) # "" THEN Head(errors)
    ELSE first_error(Tail(errors))

\* message._ensure_json_compatible makes the checks of the tool bridge's function
\* and raises TypeError (a key that is empty, an unsupported type) or ValueError
\* (a float that is not finite) where that one raises AdapterError: the exception
\* it raises, "" when it returns.
RECURSIVE message_ensure_json_compatible(_)
message_ensure_json_compatible(value) ==
    IF IsMapping(value)
    THEN LET keys == items_in_order(value.v)
         IN  first_error([i \in 1..Len(keys) |->
                            IF keys[i] = "" THEN "TypeError"
                            ELSE message_ensure_json_compatible(value.v[keys[i]])])
    ELSE IF IsSequence(value)
    THEN first_error([i \in 1..Len(value.v) |->
                        message_ensure_json_compatible(value.v[i])])
    ELSE IF value.tag \in {"bool", "null", "str"} THEN ""
    ELSE IF value.tag \in {"int", "float"}
    THEN IF value.tag = "float" /\ value.v \in NonFinite THEN "ValueError" ELSE ""
    ELSE "TypeError"

\* message._freeze_json_structure
message_freeze_json_structure(value) == freeze_nested_json(value)

\* What a constructor of message.py raises.
PyValueError == [ok |-> FALSE, value |-> None, error |-> "ValueError"]
PyTypeError == [ok |-> FALSE, value |-> None, error |-> "TypeError"]

\* ToolCall(id=id, name=name, arguments=arguments), that is __post_init__ on the
\* three fields (id, name and arguments are Python values of any type).
ToolCall(id, name, arguments) ==
    LET plain_arguments == message_thaw_json_structure(JDict(arguments.v))
        sanitized == json_round_trip(plain_arguments)
    IN  IF id.tag # "str" \/ id.v = "" THEN PyValueError
        ELSE IF name.tag # "str" \/ name.v = "" THEN PyValueError
        ELSE IF ~IsMapping(arguments) THEN PyTypeError
        ELSE IF message_ensure_json_compatible(plain_arguments) = "TypeError"
        THEN PyTypeError
        ELSE IF message_ensure_json_compatible(plain_arguments) = "ValueError"
        THEN PyValueError
        ELSE IF ~json_dumps_ok(plain_arguments) THEN PyValueError
        ELSE Constructed([id |-> id.v, name |-> name.v,
                          arguments |-> message_freeze_json_structure(sanitized)])

\* _coerce_mapping on a value without a model_dump method.
coerce_mapping(value) == IF IsMapping(value) THEN Constructed(value) ELSE AdapterError

\* _coerce_arguments
coerce_arguments(raw) ==
    LET parsed == json_loads(IF raw.v = "" THEN "{}" ELSE raw.v)
        mapping == IF IsMapping(raw) THEN JDict(raw.v) ELSE Val(parsed.value)
    IN  IF ~IsMapping(raw) /\ raw.tag # "str" THEN AdapterError
        ELSE IF raw.tag = "str" /\ ~parsed.ok THEN AdapterError
        ELSE IF raw.tag = "str" /\ ~IsMapping(Val(parsed.value)) THEN AdapterError
        ELSE IF ~ensure_json_compatible(mapping) THEN AdapterError
        ELSE IF ~json_dumps_ok(mapping) THEN AdapterError
        ELSE Constructed(freeze_json_structure(json_round_trip(mapping)))

\* One iteration of the for loop of normalize_tool_calls: the ToolCall of one item.
bridge_normalize_item(item) ==
    LET mapping == coerce_mapping(item)
        m == Val(mapping.value)
        call_id == dict_get(m, "id")
        call_type == dict_get(m, "type")
        function_mapping == coerce_mapping(dict_get(m, "function"))
        f == Val(function_mapping.value)
        name == dict_get(f, "name")
        raw_arguments == dict_get_default(f, "arguments", JStr("{}"))
        arguments_mapping == coerce_arguments(raw_arguments)
    IN  IF ~mapping.ok THEN AdapterError
        ELSE IF call_id.tag # "str" \/ call_id.v = "" THEN AdapterError
        ELSE IF ~(call_type.tag = "str" /\ call_type.v = "function") THEN AdapterError
        ELSE IF ~function_mapping.ok THEN AdapterError
        ELSE IF name.tag # "str" \/ name.v = "" THEN AdapterError
        ELSE IF ~arguments_mapping.ok THEN AdapterError
        ELSE ToolCall(call_id, name, Val(arguments_mapping.value))

\* toolbridge.normalize_tool_calls: the tuple of ToolCalls, or the first error.
bridge_normalize_tool_calls(tool_calls) ==
    LET items == tool_calls.v
        calls == [i \in 1..Len(items) |-> bridge_normalize_item(items[i])]
        failed == {i \in 1..Len(items) : ~calls[i].ok}
        first == CHOOSE i \in failed : \A j \in failed : i <= j
    IN  IF tool_calls.tag = "str" THEN AdapterError
        ELSE IF failed # {} THEN calls[first]
        ELSE Constructed([i \in 1..Len(items) |-> Val(calls[i].value)])

\* tool_call_to_openai on a ToolCall instance.
tool_call_to_openai(tool_call) ==
    LET thawed_arguments == thaw_json_structure(tool_call.arguments)
    IN  IF ~json_dumps_ok(thawed_arguments) THEN AdapterError
        ELSE Constructed(JDict(Dict3(
                 "id", JStr(tool_call.id),
                 "type", JStr("function"),
                 "function", JDict(Dict2("name", JStr(tool_call.name),
                                         "arguments", JStr(json_dumps(thawed_arguments)))))))

\* {"id": id, "type": type, "function": {"name": name, "arguments": arguments}}
CallPayload(id, type, name, arguments) ==
    JDict(Dict3("id", id, "type", type,
                "function", JDict(Dict2("name", name, "arguments", arguments))))

\* A well-formed entry whose arguments are the given value.
CallWith(arguments) == CallPayload(JStr("c1"), JStr("function"), JStr("f"), arguments)

\* The entries a provider payload is made of.
ToolCallItemInputs ==
    << CallWith(JStr("{\"a\": 1}")),
       CallWith(JStr("{\"a\":1}")),
       CallWith(JStr("{\"a\": 1, \"a\": 2}")),
       CallWith(JStr("{\"a\": [1, {\"b\": null}], \"b\": 1.5}")),
       CallWith(JStr("{\"a\": \"q\\\"t\"}")),
       CallWith(JStr("{}")),
       CallWith(JStr("")),
       JDict(Dict3("id", JStr("c1"), "type", JStr("function"),
                   "function", JDict(Dict1("name", JStr("f"))))),
       CallWith(JDict(Dict1("a", JBool(TRUE)))),
       CallWith(JDict(Dict1("a", JTuple(<<JInt(1), JInt(2)>>)))),
       CallWith(JProxy(Dict1("a", JList(<<JInt(1), JInt(2)>>)))),
       CallPayload(JStr("c2"), JStr("function"), JStr("bad name"), JStr("{\"a\": 2}")),
       CallWith(JDict(Dict1("a", JProxy(Dict1("b", JInt(1)))))),
       CallWith(JDict(Dict1("a", JSet))),
       CallWith(JDict(Dict1("a", JFloat("nan")))),
       CallWith(JStr("{\"a\": NaN}")),
       CallWith(JStr("{\"\": 1}")),
       CallWith(JStr("[1]")),
       CallWith(JStr("{")),
       CallWith(JNull),
       CallWith(JInt(1)),
       CallPayload(JStr(""), JStr("function"), JStr("f"), JStr("{}")),
       CallPayload(JInt(7), JStr("function"), JStr("f"), JStr("{}")),
       CallPayload(JStr("c1"), JStr("tool"), JStr("f"), JStr("{}")),
       CallPayload(JStr("c1"), JStr("function"), JStr(""), JStr("{}")),
       JDict(Dict2("id", JStr("c1"), "type", JStr("function"))),
       JStr("c1") >>

MaxToolCalls == 2

\* The payload made of the entries with the given numbers; no number at all stands
\* for a payload that is a str instead of a sequence.
ToolCallPayload(ix) ==
    IF IsNone(ix) THEN JStr("abc")
    ELSE JList([i \in 1..Len(Val(ix)) |-> ToolCallItemInputs[Val(ix)[i]]])

\* The selections of at most `max` numbers out of 1..count, and no selection.
Selections(count, max) ==
    {None} \cup {Some(ix) : ix \in UNION {[1..n -> 1..count] : n \in 0..max}}

\* A caller normalises a provider tool-call payload.
NormalizeToolCalls ==
    /\ IsNone(bridge)
    /\ \E ix \in Selections(Len(ToolCallItemInputs), MaxToolCalls) :
         LET payload == ToolCallPayload(ix)
         IN  bridge' = Some([op |-> "normalize_tool_calls", input |-> payload,
                             result |-> bridge_normalize_tool_calls(payload),
                             back |-> None, again |-> None])
    /\ UNCHANGED outside_bridge

\* The caller converts the ToolCalls it got back to provider form.
ToolCallsToOpenAI ==
    /\ ~IsNone(bridge)
    /\ Val(bridge).op = "normalize_tool_calls"
    /\ Val(bridge).result.ok
    /\ IsNone(Val(bridge).back)
    /\ LET calls == Val(Val(bridge).result.value)
       IN  bridge' = Some([Val(bridge) EXCEPT
                             !.back = Some([i \in 1..Len(calls) |->
                                              tool_call_to_openai(calls[i])])])
    /\ UNCHANGED outside_bridge

\* The caller normalises the payload that the conversion produced.
NormalizeToolCallsAgain ==
    /\ ~IsNone(bridge)
    /\ Val(bridge).op = "normalize_tool_calls"
    /\ ~IsNone(Val(bridge).back)
    /\ IsNone(Val(bridge).again)
    /\ LET back == Val(Val(bridge).back)
       IN  /\ \A i \in 1..Len(back) : back[i].ok
           /\ bridge' = Some([Val(bridge) EXCEPT
                                !.again = Some(bridge_normalize_tool_calls(
                                    JList([i \in 1..Len(back) |-> Val(back[i].value)])))])
    /\ UNCHANGED outside_bridge

(* ---- tool bridge: tool specifications to provider form ---- *)

\* A ToolSpec instance as an element of a Python sequence.
JToolSpec(spec) == [tag |-> "ToolSpec", v |-> spec]

\* The function payload of one spec.
function_payload(spec) ==
    LET base == Dict2("name", JStr(spec.name),
                      "parameters", thaw_json_structure(spec.parameters))
    IN  IF IsNone(spec.description) THEN JDict(base)
        ELSE JDict(DictSet(base, "description", JStr(Val(spec.description))))

\* The for loop of tool_specs_to_openai from entry `index` on, with the records
\* built and the names seen so far; seen_names is never added to.
RECURSIVE tool_specs_loop_NoSeen(_, _, _, _)
tool_specs_loop_NoSeen(tools_list, index, normalized_tools, seen_names) ==
    IF index > Len(tools_list) THEN Constructed(normalized_tools)
    ELSE LET spec == tools_list[index]
         IN  IF spec.tag # "ToolSpec" THEN AdapterError
             ELSE IF spec.v.name \in seen_names THEN AdapterError
             ELSE tool_specs_loop_NoSeen(
                      tools_list, index + 1,
                      Append(normalized_tools,
                             JDict(Dict2("type", JStr("function"),
                                         "function", function_payload(spec.v)))),
                      seen_names)

\* The for loop of tool_specs_to_openai from entry `index` on, with the records
\* built and the names seen so far.
RECURSIVE tool_specs_loop(_, _, _, _)
tool_specs_loop(tools_list, index, normalized_tools, seen_names) ==
    IF index > Len(tools_list) THEN Constructed(normalized_tools)
    ELSE LET spec == tools_list[index]
         IN  IF spec.tag # "ToolSpec" THEN AdapterError
             ELSE IF spec.v.name \in seen_names THEN AdapterError
             ELSE tool_specs_loop(
                      tools_list, index + 1,
                      Append(normalized_tools,
                             JDict(Dict2("type", JStr("function"),
                                         "function", function_payload(spec.v)))),
                      seen_names \cup {spec.v.name})

\* tool_specs_to_openai
tool_specs_to_openai(tool_specs) ==
    IF tool_specs.tag = "str" THEN AdapterError
    ELSE tool_specs_loop(tool_specs.v, 1, <<>>, {})

\* The elements a caller may put in the sequence: ToolSpec instances (two of them
\* with the same name) and a dict that is not a ToolSpec.
ToolSpecEntryInputs ==
    << JToolSpec(Val(ToolSpec("get_weather", SchemaA(JList(<<JStr("a")>>)), Some("d")).value)),
       JToolSpec(Val(ToolSpec("get_weather", ObjectSchema(JDict(EmptyDict)), None).value)),
       JToolSpec(Val(ToolSpec("sum-2", SchemaA(JNull), None).value)),
       JToolSpec(Val(ToolSpec("sum-2", SchemaA(JList(<<>>)), Some("  d ")).value)),
       JDict(Dict1("name", JStr("get_weather"))) >>

MaxToolSpecs == 3

\* The sequence made of the elements with the given numbers; no number at all
\* stands for a str passed instead of a sequence.
ToolSpecSequence(ix) ==
    IF IsNone(ix) THEN JStr("get_weather")
    ELSE JList([i \in 1..Len(Val(ix)) |-> ToolSpecEntryInputs[Val(ix)[i]]])

\* A caller converts a sequence of tool specs to provider form.
ToolSpecsToOpenAI ==
    /\ IsNone(bridge)
    /\ \E ix \in Selections(Len(ToolSpecEntryInputs), MaxToolSpecs) :
         LET tool_specs == ToolSpecSequence(ix)
         IN  bridge' = Some([op |-> "tool_specs_to_openai", input |-> tool_specs,
                             result |-> tool_specs_to_openai(tool_specs),
                             back |-> None, again |-> None])
    /\ UNCHANGED outside_bridge

NextBridge ==
    \/ NormalizeToolCalls
    \/ ToolCallsToOpenAI
    \/ NormalizeToolCallsAgain
    \/ ToolSpecsToOpenAI

SpecBridge == Init /\ [][NextBridge]_vars

(* ---- message schema (message.py) and openai_to_messages (utils.py) ---- *)

\* A ToolCall instance as an element of a Python sequence.
JToolCall(tool_call) == [tag |-> "ToolCall", v |-> tool_call]

\* The values of MessageRole.
ROLE_VALUES == {"system", "user", "assistant"}
ALLOWED_KEYS == {"role", "content", "tool_calls"}

\* Message.__post_init__ without the closing check of the content.
Message_NoEmptyCheck(role, content, tool_calls) ==
    LET given == tool_calls.tag # "null"
        candidates == tool_calls.v
    IN  IF content.tag # "str" THEN PyTypeError
        ELSE IF given /\ ~IsSequence(tool_calls) THEN PyTypeError
        ELSE IF given /\ candidates = <<>> THEN PyValueError
        ELSE IF given /\ \E i \in 1..Len(candidates) : candidates[i].tag # "ToolCall"
        THEN PyTypeError
        ELSE Constructed([role |-> role, content |-> content.v,
                          tool_calls |-> IF given
                                         THEN Some([i \in 1..Len(candidates) |->
                                                      candidates[i].v])
                                         ELSE None])

\* Message(role=role, content=content, tool_calls=tool_calls), that is
\* __post_init__ on the fields: content and tool_calls are Python values of any
\* type, tool_calls is JNull when it is left out.
Message(role, content, tool_calls) ==
    LET given == tool_calls.tag # "null"
        candidates == tool_calls.v
    IN  IF content.tag # "str" THEN PyTypeError
        ELSE IF given /\ ~IsSequence(tool_calls) THEN PyTypeError
        ELSE IF given /\ candidates = <<>> THEN PyValueError
        ELSE IF given /\ \E i \in 1..Len(candidates) : candidates[i].tag # "ToolCall"
        THEN PyTypeError
        ELSE IF content.v = "" /\ ~given THEN PyValueError
        ELSE Constructed([role |-> role, content |-> content.v,
                          tool_calls |-> IF given
                                         THEN Some([i \in 1..Len(candidates) |->
                                                      candidates[i].v])
                                         ELSE None])

\* raw_role.strip().lower() on the roles used as input.
strip_lower(x) ==
    CASE x = " User " -> "user"
      [] x = "ASSISTANT" -> "assistant"
      [] OTHER -> x

\* One iteration of the for loop of openai_to_messages, given the outcome
\* tool_calls_tuple of normalize_tool_calls(tool_calls_payload): the Message of one
\* entry.
message_of_entry(item, tool_calls_tuple) ==
    LET raw_role == dict_get(item, "role")
        normalized_role == strip_lower(raw_role.v)
        raw_content == dict_get_default(item, "content", JStr(""))
        content == IF raw_content.tag = "null" THEN "" ELSE raw_content.v
        tool_calls_payload == dict_get(item, "tool_calls")
        given == tool_calls_payload.tag # "null"
        calls == Val(tool_calls_tuple.value)
        tool_calls == IF ~given \/ calls = <<>> THEN JNull
                      ELSE JTuple([i \in 1..Len(calls) |-> JToolCall(calls[i])])
    IN  IF ~IsMapping(item) THEN AdapterError
        ELSE IF DOMAIN item.v \ ALLOWED_KEYS # {} THEN AdapterError
        ELSE IF raw_role.tag # "str" THEN AdapterError
        ELSE IF normalized_role \notin ROLE_VALUES THEN AdapterError
        ELSE IF raw_content.tag \notin {"null", "str"} THEN AdapterError
        ELSE IF given /\ ~IsSequence(tool_calls_payload) THEN AdapterError
        ELSE IF given /\ ~tool_calls_tuple.ok THEN tool_calls_tuple
        ELSE IF content = "" /\ tool_calls.tag = "null" THEN AdapterError
        ELSE Message(normalized_role, JStr(content), tool_calls)

\* One iteration of the for loop of openai_to_messages: the Message of one entry.
openai_to_message(item) ==
    message_of_entry(item, bridge_normalize_tool_calls(dict_get(item, "tool_calls")))

\* The end of openai_to_messages, given the outcome of each iteration: the list of
\* Messages, or the first error.
messages_or_first_error(made) ==
    LET failed == {i \in 1..Len(made) : ~made[i].ok}
        first == CHOOSE i \in failed : \A j \in failed : i <= j
    IN  IF failed # {} THEN made[first]
        ELSE Constructed([i \in 1..Len(made) |-> Val(made[i].value)])

\* openai_to_messages on a list of entries: the list of Messages, or the first error.
openai_to_messages(payload) ==
    messages_or_first_error([i \in 1..Len(payload.v) |-> openai_to_message(payload.v[i])])

\* A ToolCall instance a caller holds.
CallC1 == Val(ToolCall(JStr("c1"), JStr("f"), JDict(Dict1("a", JInt(1)))).value)

\* Constructor arguments a caller may pass to Message.
ContentInputs == <<JStr("hi"), JStr(""), JStr("  "), JNull, JInt(0)>>
ToolCallsInputs ==
    << JNull, JList(<<>>), JTuple(<<>>), JList(<<JToolCall(CallC1)>>),
       JTuple(<<JToolCall(CallC1), JToolCall(CallC1)>>),
       JList(<<JToolCall(CallC1), CallWith(JStr("{}"))>>), JStr("c1"),
       JDict(EmptyDict) >>

\* A caller constructs a Message.
MessageConstruct ==
    /\ IsNone(message)
    /\ \E role \in ROLE_VALUES, i \in 1..Len(ContentInputs), j \in 1..Len(ToolCallsInputs) :
         LET args == [role |-> role, content |-> ContentInputs[i],
                      tool_calls |-> ToolCallsInputs[j]]
         IN  message' = Some([op |-> "Message", input |-> args,
                              result |-> Message(args.role, args.content,
                                                 args.tool_calls)])
    /\ UNCHANGED outside_message

\* {"role": role, "content": content, "tool_calls": tool_calls}
MessagePayload(role, content, tool_calls) ==
    JDict(Dict3("role", role, "content", content, "tool_calls", tool_calls))

\* The entries a provider message payload is made of.
MessageItemInputs ==
    << JDict(Dict2("role", JStr("user"), "content", JStr("hi"))),
       JDict(Dict2("role", JStr(" User "), "content", JStr(""))),
       JDict(Dict2("role", JStr("system"), "content", JNull)),
       JDict(Dict1("role", JStr("ASSISTANT"))),
       JDict(Dict2("role", JStr("assistant"), "content", JStr("  "))),
       MessagePayload(JStr("assistant"), JStr(""), JList(<<CallWith(JStr("{\"a\": 1}"))>>)),
       MessagePayload(JStr("assistant"), JNull, JTuple(<<CallWith(JStr(""))>>)),
       MessagePayload(JStr("assistant"), JStr(""), JList(<<>>)),
       MessagePayload(JStr("assistant"), JStr("hi"), JList(<<>>)),
       MessagePayload(JStr("assistant"), JStr(""), JNull),
       MessagePayload(JStr("assistant"), JStr(""), JList(<<CallWith(JStr("{"))>>)),
       MessagePayload(JStr("assistant"), JStr(""), JStr("c1")),
       MessagePayload(JStr("assistant"), JStr(""), JDict(EmptyDict)),
       JDict(Dict2("role", JStr("tool"), "content", JStr("hi"))),
       JDict(Dict2("role", JInt(1), "content", JStr("hi"))),
       JDict(Dict2("role", JStr("user"), "content", JInt(0))),
       JDict(Dict3("role", JStr("user"), "content", JStr("hi"), "name", JStr("x"))),
       JStr("hi") >>

MaxMessages == 2

\* The payload made of the entries with the given numbers.
MessagesPayload(ix) == JList([i \in 1..Len(ix) |-> MessageItemInputs[ix[i]]])

\* A caller normalises a provider message payload.
OpenAIToMessages ==
    /\ IsNone(message)
    /\ \E n \in 0..MaxMessages :
         \E ix \in [1..n -> 1..Len(MessageItemInputs)] :
           LET payload == MessagesPayload(ix)
           IN  message' = Some([op |-> "openai_to_messages", input |-> payload,
                                result |-> openai_to_messages(payload)])
    /\ UNCHANGED outside_message

NextMessage ==
    \/ MessageConstruct
    \/ OpenAIToMessages

SpecMessage == Init /\ [][NextMessage]_vars

(* ---- adapter facades (core/adapters/openai.py, adapters/openai_adapter.py) ---- *)

\* The two classes named OpenAIAdapter: "core" is foundry.core.adapters.openai,
\* "canonical" is foundry.adapters.openai_adapter.
AdapterClasses == {"core", "canonical"}

\* reserved = {"messages", "stream"} of both __init__ methods.
RESERVED_DEFAULTS == {"messages", "stream"}
\* The keys that both _build_payload methods refuse in the options of a call.
RESERVED_OPTIONS == {"messages", "stream", "tools"}

AdapterStreamError == [ok |-> FALSE, value |-> None, error |-> "AdapterStreamError"]

\* bool(value) for None, bool, str, dict, list and tuple values.
truthy(value) ==
    CASE value.tag = "null" -> FALSE
      [] value.tag = "bool" -> value.v
      [] value.tag = "str" -> value.v # ""
      [] value.tag \in {"dict", "proxy"} -> DOMAIN value.v # {}
      [] value.tag \in {"list", "tuple"} -> value.v # <<>>
      [] OTHER -> TRUE

\* str(value) for a str or None.
py_str(value) == IF value.tag = "null" THEN "None" ELSE value.v

\* {**d, **e}
DictUpdate(d, e) ==
    [key \in DOMAIN d \cup DOMAIN e |-> IF key \in DOMAIN e THEN e[key] ELSE d[key]]

\* d restricted to the keys outside `keys`.
DictWithout(d, keys) == [key \in DOMAIN d \ keys |-> d[key]]

\* OpenAIAdapter.__init__ of either class: the fields _default_model and
\* _default_params, or ValueError.
OpenAIAdapter(default_model, default_params) ==
    LET given == IF truthy(default_params) THEN default_params.v ELSE EmptyDict
        moved == "model" \in DOMAIN given /\ default_model.tag = "null"
        model == IF moved THEN JStr(py_str(given["model"])) ELSE default_model
        params == IF moved THEN DictPop(given, "model") ELSE given
    IN  IF RESERVED_DEFAULTS \cap DOMAIN params # {} THEN PyValueError
        ELSE Constructed([default_model |-> model, default_params |-> params])

\* messages_to_openai on a sequence of Message instances.
messages_to_openai(messages) ==
    [i \in 1..Len(messages) |->
       LET m == messages[i]
           base == Dict2("role", JStr(m.role), "content", JStr(m.content))
           calls == Val(m.tool_calls)
       IN  IF IsNone(m.tool_calls) \/ calls = <<>> THEN JDict(base)
           ELSE JDict(DictSet(base, "tool_calls",
                              JList([j \in 1..Len(calls) |->
                                       Val(tool_call_to_openai(calls[j]).value)])))]

\* core OpenAIAdapter._resolve_model on the options of the call.
resolve_model(adapter, options) ==
    LET model_option == dict_get(options, "model")
        model_name == IF truthy(model_option) THEN model_option ELSE adapter.default_model
    IN  IF ~truthy(model_name) THEN AdapterError ELSE Constructed(py_str(model_name))

\* core OpenAIAdapter._prepare_tools: the provider records, None, or AdapterError.
core_prepare_tools(tools) ==
    LET converted == tool_specs_to_openai(tools)
    IN  IF tools.tag = "null" \/ (IsSequence(tools) /\ tools.v = <<>>)
        THEN Constructed(JNull)
        ELSE IF ~IsSequence(tools) THEN AdapterError
        ELSE IF ~converted.ok THEN AdapterError
        ELSE Constructed(JList(Val(converted.value)))

\* core OpenAIAdapter._build_payload; options no longer holds the key model.
core_build_payload(adapter, messages, model_name, options, tools) ==
    LET defaults == DictUpdate(Dict1("model", JStr(model_name)), adapter.default_params)
        merged == DictUpdate(defaults, options.v)
        tempered == IF "temperature" \in DOMAIN merged THEN merged
                    ELSE DictSet(merged, "temperature", JInt(0))
        with_messages == DictSet(tempered, "messages", JList(messages_to_openai(messages)))
    IN  IF DOMAIN options.v \cap RESERVED_OPTIONS # {} THEN AdapterError
        ELSE IF truthy(tools) THEN Constructed(DictSet(with_messages, "tools", tools))
        ELSE Constructed(with_messages)

\* The outcome of a call of the facade: sent is the payload handed to the provider
\* client, if the call got that far.
Sent(payload) == [ok |-> TRUE, value |-> Some(payload), provider_calls |-> 1]
NotSent(error) == [ok |-> FALSE, value |-> None, provider_calls |-> 0]

\* core OpenAIAdapter.generate(messages, **kwargs) up to the call of the provider
\* client: tools and stream are parameters of their own, the other keyword
\* arguments are the options.
generate(adapter, messages, kwargs) ==
    LET tools == dict_get(kwargs, "tools")
        stream_flag == dict_get_default(kwargs, "stream", JBool(FALSE))
        options == JDict(DictWithout(kwargs.v, {"tools", "stream"}))
        model_name == resolve_model(adapter, options)
        prepared_tools == core_prepare_tools(tools)
        request_payload ==
            core_build_payload(adapter, messages, Val(model_name.value),
                               JDict(DictWithout(options.v, {"model"})),
                               Val(prepared_tools.value))
    IN  IF truthy(stream_flag) THEN NotSent(AdapterError)
        ELSE IF messages = <<>> THEN NotSent(AdapterError)
        ELSE IF ~model_name.ok THEN NotSent(AdapterError)
        ELSE IF ~prepared_tools.ok THEN NotSent(AdapterError)
        ELSE IF ~request_payload.ok THEN NotSent(AdapterError)
        ELSE Sent(Val(request_payload.value))

\* core OpenAIAdapter.stream(messages, **kwargs) up to the call of
\* create_openai_stream: tools is a parameter of its own, the other keyword
\* arguments, a stream key included, are the options; the payload is sent with
\* stream set to True.
core_stream(adapter, messages, kwargs) ==
    LET tools == dict_get(kwargs, "tools")
        options == JDict(DictWithout(kwargs.v, {"tools"}))
        model_name == resolve_model(adapter, options)
        prepared_tools == core_prepare_tools(tools)
        request_payload ==
            core_build_payload(adapter, messages, Val(model_name.value),
                               JDict(DictWithout(options.v, {"model"})),
                               Val(prepared_tools.value))
    IN  IF messages = <<>> THEN NotSent(AdapterError)
        ELSE IF ~model_name.ok THEN NotSent(AdapterError)
        ELSE IF ~prepared_tools.ok THEN NotSent(AdapterError)
        ELSE IF ~request_payload.ok THEN NotSent(AdapterError)
        ELSE Sent(DictSet(Val(request_payload.value), "stream", JBool(TRUE)))

\* canonical OpenAIAdapter._prepare_tools
canonical_prepare_tools(tools) ==
    LET converted == tool_specs_to_openai(tools)
    IN  IF tools.tag = "null" THEN Constructed(JNull)
        ELSE IF ~IsSequence(tools) THEN AdapterStreamError
        ELSE IF tools.v = <<>> THEN Constructed(JNull)
        ELSE IF \A i \in 1..Len(tools.v) : IsMapping(tools.v[i])
        THEN Constructed(JList([i \in 1..Len(tools.v) |-> JDict(tools.v[i].v)]))
        ELSE IF \A i \in 1..Len(tools.v) : tools.v[i].tag = "ToolSpec"
        THEN (IF converted.ok THEN Constructed(JList(Val(converted.value)))
              ELSE AdapterError)
        ELSE AdapterStreamError

\* canonical OpenAIAdapter._build_payload
canonical_build_payload(adapter, prompt, system_prompt, tools, extra_options) ==
    LET options == DictUpdate(adapter.default_params, extra_options.v)
        popped == IF "model" \in DOMAIN options THEN options["model"] ELSE JNull
        model_name == IF truthy(popped) THEN popped ELSE adapter.default_model
        rest == DictPop(options, "model")
        tempered == IF "temperature" \in DOMAIN rest THEN rest
                    ELSE DictSet(rest, "temperature", JInt(0))
        user == JDict(Dict2("role", JStr("user"), "content", prompt))
        messages == IF truthy(system_prompt)
                    THEN <<JDict(Dict2("role", JStr("system"), "content", system_prompt)),
                           user>>
                    ELSE <<user>>
        payload == DictUpdate(DictUpdate(Dict1("model", model_name), tempered),
                              Dict2("messages", JList(messages), "stream", JBool(TRUE)))
    IN  IF DOMAIN extra_options.v \cap RESERVED_OPTIONS # {} THEN AdapterStreamError
        ELSE IF ~truthy(model_name) THEN AdapterStreamError
        ELSE IF tools.tag # "null" THEN Constructed(DictSet(payload, "tools", tools))
        ELSE Constructed(payload)

\* canonical OpenAIAdapter.stream(prompt, **kwargs) up to the call of the stream
\* factory: system_prompt and tools are popped, the other keyword arguments are the
\* extra options.
stream(adapter, prompt, kwargs) ==
    LET system_prompt == dict_get(kwargs, "system_prompt")
        tools == dict_get(kwargs, "tools")
        prepared_tools == canonical_prepare_tools(tools)
        payload == canonical_build_payload(
                       adapter, prompt, system_prompt, Val(prepared_tools.value),
                       JDict(DictWithout(kwargs.v, {"system_prompt", "tools"})))
    IN  IF prompt.tag # "str" \/ prompt.v = "" THEN NotSent(AdapterStreamError)
        ELSE IF system_prompt.tag \notin {"null", "str"} THEN NotSent(AdapterStreamError)
        ELSE IF ~prepared_tools.ok THEN NotSent(AdapterStreamError)
        ELSE IF ~payload.ok THEN NotSent(AdapterStreamError)
        ELSE Sent(Val(payload.value))

\* Constructor arguments a caller may pass.
DefaultModelInputs == <<JNull, JStr("A")>>
DefaultParamsInputs ==
    << JNull,
       JDict(EmptyDict),
       JDict(Dict1("model", JStr("B"))),
       JDict(Dict1("model", JStr(""))),
       JDict(Dict1("temperature", JInt(1))),
       JDict(Dict1("tools", JList(<<JDict(Dict1("type", JStr("function")))>>))),
       JDict(Dict1("messages", JList(<<>>))),
       JDict(Dict1("stream", JBool(FALSE))),
       JDict(Dict2("model", JStr("B"), "stream", JBool(TRUE))) >>

\* The keyword arguments of a call.
KwargsInputs ==
    << JDict(EmptyDict),
       JDict(Dict1("model", JStr("C"))),
       JDict(Dict1("model", JStr(""))),
       JDict(Dict1("model", JNull)),
       JDict(Dict1("temperature", JInt(2))),
       JDict(Dict1("messages", JList(<<>>))),
       JDict(Dict1("stream", JBool(TRUE))),
       JDict(Dict1("stream", JBool(FALSE))),
       JDict(Dict2("model", JStr("C"), "messages", JList(<<>>))),
       JDict(Dict1("tools", JList(<<ToolSpecEntryInputs[1]>>))),
       JDict(Dict1("tools", JList(<<ToolSpecEntryInputs[5]>>))),
       JDict(Dict1("tools", JList(<<>>))),
       JDict(Dict1("tools", JStr("get_weather"))),
       JDict(Dict1("system_prompt", JStr("s"))) >>

\* The first argument of a call: the messages for generate, the prompt for stream.
MessagesInputs == << <<>>, <<Val(Message("user", JStr("hi"), JNull).value)>> >>
PromptInputs == <<JStr(""), JStr("hi")>>

\* A caller constructs an adapter of either class.
AdapterConstruct ==
    /\ IsNone(facade)
    /\ \E class \in AdapterClasses, i \in 1..Len(DefaultModelInputs),
          j \in 1..Len(DefaultParamsInputs) :
         LET args == [default_model |-> DefaultModelInputs[i],
                      default_params |-> DefaultParamsInputs[j]]
         IN  facade' = Some([class |-> class, args |-> args,
                             adapter |-> OpenAIAdapter(args.default_model,
                                                       args.default_params),
                             request |-> None])
    /\ UNCHANGED outside_facade

\* The caller calls generate on the core adapter it constructed.
AdapterGenerate ==
    /\ ~IsNone(facade)
    /\ Val(facade).class = "core"
    /\ Val(facade).adapter.ok
    /\ IsNone(Val(facade).request)
    /\ \E i \in 1..Len(MessagesInputs), k \in 1..Len(KwargsInputs) :
         facade' = Some([Val(facade) EXCEPT
                           !.request = Some([first |-> i, kwargs |-> KwargsInputs[k],
                                             options |-> DictWithout(KwargsInputs[k].v,
                                                                     {"tools", "stream"}),
                                             result |-> generate(
                                                 Val(Val(facade).adapter.value),
                                                 MessagesInputs[i], KwargsInputs[k])])])
    /\ UNCHANGED outside_facade

\* The caller calls stream on the core adapter it constructed.
AdapterCoreStreamRequest ==
    /\ ~IsNone(facade)
    /\ Val(facade).class = "core"
    /\ Val(facade).adapter.ok
    /\ IsNone(Val(facade).request)
    /\ \E i \in 1..Len(MessagesInputs), k \in 1..Len(KwargsInputs) :
         facade' = Some([Val(facade) EXCEPT
                           !.request = Some([first |-> i, kwargs |-> KwargsInputs[k],
                                             options |-> DictWithout(KwargsInputs[k].v,
                                                                     {"tools"}),
                                             result |-> core_stream(
                                                 Val(Val(facade).adapter.value),
                                                 MessagesInputs[i], KwargsInputs[k])])])
    /\ UNCHANGED outside_facade

\* The caller calls stream on the canonical adapter it constructed.
AdapterStreamRequest ==
    /\ ~IsNone(facade)
    /\ Val(facade).class = "canonical"
    /\ Val(facade).adapter.ok
    /\ IsNone(Val(facade).request)
    /\ \E i \in 1..Len(PromptInputs), k \in 1..Len(KwargsInputs) :
         facade' = Some([Val(facade) EXCEPT
                           !.request = Some([first |-> i, kwargs |-> KwargsInputs[k],
                                             options |-> DictWithout(KwargsInputs[k].v,
                                                                     {"system_prompt", "tools"}),
                                             result |-> stream(
                                                 Val(Val(facade).adapter.value),
                                                 PromptInputs[i], KwargsInputs[k])])])
    /\ UNCHANGED outside_facade

NextFacade ==
    \/ AdapterConstruct
    \/ AdapterGenerate
    \/ AdapterCoreStreamRequest
    \/ AdapterStreamRequest

SpecFacade == Init /\ [][NextFacade]_vars

(* ---- AgentRuntime and SessionTranscript (src/foundry/runtime/loop.py) ---- *)
(* The runtime drives the BaseStreamIterator its adapter returns. The      *)
(* iterator is the list-backed one of the runtime tests: its normalizer is *)
(* stateless, _on_close is the default one and never suspends, so close()  *)
(* runs in one step. The consumer pulls one event at a time; another task  *)
(* may call aclose() while a pull is suspended on the source.              *)

MaxPulls == 4
MaxFetches == 3
MaxAcloseCalls == 1

\* AgentState.snapshot(): new lists for memory and tokens, a deep copy of metadata,
\* so that the copy has no container in common with the live state. The events in
\* tokens and last_tool are not copied: the lists of the copy hold the event
\* objects of the live state, and so does its last_tool (see edit_event).
snapshot(state) ==
    [memory |-> state.memory, last_tool |-> state.last_tool, tokens |-> state.tokens,
     metadata |-> state.metadata]

\* SessionTranscript.record
transcript_record(transcript, event, state) ==
    [events |-> Append(transcript.events, event),
     states |-> Append(transcript.states, snapshot(state))]

\* dict.setdefault(key, default) on an optional entry: the value it returns.
setdefault(entry, default) == IF IsNone(entry) THEN default ELSE Val(entry)

\* _handle_tool_call with `call_state["args"] = event.args_fragment`.
handle_tool_call_ArgsOverwritten(state, event) ==
    LET tool_calls == setdefault(state.metadata.tool_calls, EmptyDict)
        call_state == IF event.id \in DOMAIN tool_calls THEN tool_calls[event.id]
                      ELSE [name |-> event.name, args |-> "", is_final |-> FALSE,
                            fragments |-> <<>>]
        updated == [name |-> event.name,
                    args |-> event.args_fragment,
                    is_final |-> event.is_final,
                    fragments |-> Append(call_state.fragments, event.args_fragment)]
    IN  [state EXCEPT
            !.metadata.tool_calls = Some(DictSet(tool_calls, event.id, updated)),
            !.last_tool = IF event.is_final THEN Some(event) ELSE @,
            !.memory = Append(@, "tool_call:" \o event.name)]

\* AgentRuntime._handle_tool_call
handle_tool_call(state, event) ==
    LET tool_calls == setdefault(state.metadata.tool_calls, EmptyDict)
        call_state == IF event.id \in DOMAIN tool_calls THEN tool_calls[event.id]
                      ELSE [name |-> event.name, args |-> "", is_final |-> FALSE,
                            fragments |-> <<>>]
        updated == [name |-> event.name,
                    args |-> call_state.args \o event.args_fragment,
                    is_final |-> event.is_final,
                    fragments |-> Append(call_state.fragments, event.args_fragment)]
    IN  [state EXCEPT
            !.metadata.tool_calls = Some(DictSet(tool_calls, event.id, updated)),
            !.last_tool = IF event.is_final THEN Some(event) ELSE @,
            !.memory = Append(@, "tool_call:" \o event.name)]

\* AgentRuntime._handle_tool_result
handle_tool_result(state, event) ==
    LET tool_results == setdefault(state.metadata.tool_results, EmptyDict)
    IN  [state EXCEPT
            !.metadata.tool_results = Some(DictSet(tool_results, event.id, event.output)),
            !.last_tool = IF ~IsNone(@) /\ Val(@).id = event.id THEN None ELSE @,
            !.memory = Append(@, event.output)]

\* AgentRuntime._handle_final_event
handle_final_event(state, event) ==
    [state EXCEPT
        !.metadata.final_output = Some(event.output),
        !.metadata.total_tokens = IF ~IsNone(event.total_tokens)
                                  THEN event.total_tokens ELSE @,
        !.memory = Append(@, event.output)]

\* AgentRuntime._handle_event without its transcript.transcript_record(...).
handle_event_NoRecord(rt, event) ==
    LET state ==
            IF event.type = "Token"
            THEN [rt.state EXCEPT
                    !.tokens = Append(@, event),
                    !.memory = Append(@, event.content),
                    !.metadata.token_counts = Some(setdefault(@, 0) + 1)]
            ELSE IF event.type = "ToolCall" THEN handle_tool_call(rt.state, event)
            ELSE IF event.type = "ToolResult" THEN handle_tool_result(rt.state, event)
            ELSE handle_final_event(rt.state, event)
    IN  [rt EXCEPT !.state = state]

\* AgentRuntime._handle_event
handle_event(rt, event) ==
    LET state ==
            IF event.type = "Token"
            THEN [rt.state EXCEPT
                    !.tokens = Append(@, event),
                    !.memory = Append(@, event.content),
                    !.metadata.token_counts = Some(setdefault(@, 0) + 1)]
            ELSE IF event.type = "ToolCall" THEN handle_tool_call(rt.state, event)
            ELSE IF event.type = "ToolResult" THEN handle_tool_result(rt.state, event)
            ELSE handle_final_event(rt.state, event)
    IN  [rt EXCEPT !.state = state, !.transcript = transcript_record(@, event, state)]

\* BaseStreamIterator.close with the default _on_close.
iterator_close(it) ==
    IF it.closed THEN [it EXCEPT !.close_calls = @ + 1]
    ELSE [it EXCEPT !.close_calls = @ + 1, !.closed = TRUE, !.buffer = <<>>,
                    !.on_close_calls = @ + 1]

\* What a step of the iterator gives: the iterator after it and either an event, an
\* exception ("eos", "err", "cancelled") or a suspension on the source ("fetch").
Step(it, kind, event) == [it |-> it, kind |-> kind, event |-> event]

\* _pop_buffered_event on a non-empty buffer, then _finalize_if_needed.
iterator_pop_and_finalize(it) ==
    LET event == Head(it.buffer)
        popped == [it EXCEPT !.buffer = Tail(@)]
    IN  IF event.type = "Final"
        THEN IF popped.buffer = <<>>
             THEN Step(iterator_close([popped EXCEPT !.finalized = TRUE]), "event",
                       Some(event))
             ELSE Step([popped EXCEPT !.finalized = TRUE], "event", Some(event))
        ELSE Step(popped, "event", Some(event))

\* The head of the `while True` loop of BaseStreamIterator.__anext__.
iterator_loop_head(it) ==
    IF it.closed THEN Step(it, "eos", None)
    ELSE IF it.finalized THEN Step(iterator_close(it), "eos", None)
    ELSE Step([it EXCEPT !.fetches = @ + 1], "fetch", None)

\* BaseStreamIterator.__anext__ up to its first suspension.
iterator_anext(it) ==
    LET pulled == [it EXCEPT !.pulls = @ + 1]
    IN  IF pulled.closed /\ pulled.buffer = <<>> THEN Step(pulled, "eos", None)
        ELSE IF pulled.finalized /\ pulled.buffer = <<>>
        THEN Step(iterator_close(pulled), "eos", None)
        ELSE IF pulled.buffer # <<>> THEN iterator_pop_and_finalize(pulled)
        ELSE iterator_loop_head(pulled)

\* _get_next_chunk returned `chunk`: normalize_chunk and the rest of the loop body.
iterator_chunk(it, chunk) ==
    LET events == mock_normalize_chunk(chunk)
    IN  IF events = <<>> THEN iterator_loop_head(it)
        ELSE iterator_pop_and_finalize([it EXCEPT !.buffer = @ \o events])

\* _get_next_chunk raised StopAsyncIteration: _consume_chunk closes and re-raises.
iterator_end(it) == Step(iterator_close(it), "eos", None)

\* _get_next_chunk raised something else: it leaves __anext__ as it is.
iterator_raise(it, kind) == Step(it, kind, None)

\* The runtime and the iterator together, as AgentRuntime's methods change them.
Both(rt, it) == [runtime |-> rt, iterator |-> it]

\* AgentRuntime.aclose that leaves the iterator open.
runtime_aclose_NoIteratorClose(rt, it) ==
    IF rt.closed THEN Both(rt, it)
    ELSE Both([rt EXCEPT !.closed = TRUE, !.stream = FALSE], it)

\* AgentRuntime.aclose. The iterator has no aclose attribute, so close() is awaited.
runtime_aclose(rt, it) ==
    IF rt.closed THEN Both(rt, it)
    ELSE IF ~rt.stream THEN Both([rt EXCEPT !.closed = TRUE], it)
    ELSE Both([rt EXCEPT !.closed = TRUE, !.stream = FALSE], iterator_close(it))

\* AgentRuntime.__anext__ that goes on to pull the stream although it is closed.
closed_check_NoCheck(rt) == FALSE

\* `if self._closed: raise StopAsyncIteration` of AgentRuntime.__anext__
closed_check(rt) == rt.closed

\* AgentRuntime.__anext__ from the point where iterator.__anext__() has given `step`:
\* the except clauses, _handle_event, the aclose() after a Final, and the return.
\* `c` is the consumer's record of the pull.
runtime_resume(rt, step, c) ==
    IF step.kind = "fetch"
    THEN /\ runtime' = rt
         /\ iterator' = step.it
         /\ consumer' = [c EXCEPT !.pc = "fetch", !.outcome = "running"]
    ELSE IF step.kind = "event"
    THEN LET event == Val(step.event)
             handled == handle_event(rt, event)
             after == IF event.type = "Final" THEN runtime_aclose(handled, step.it)
                      ELSE Both(handled, step.it)
         IN  /\ runtime' = after.runtime
             /\ iterator' = after.iterator
             /\ consumer' = [c EXCEPT !.pc = "idle", !.outcome = "event",
                                      !.returned = Append(@, event)]
    ELSE LET after == runtime_aclose(rt, step.it)
         IN  /\ runtime' = after.runtime
             /\ iterator' = after.iterator
             /\ consumer' = [c EXCEPT !.pc = "idle", !.outcome = step.kind,
                                      !.raised = step.kind]

\* The transcripts a caller may pass to AgentRuntime(...): none, an empty one, and
\* one that has recorded an event of an earlier session.
EarlierState ==
    [NewAgentState EXCEPT !.tokens = <<CoreTokenEvent("old", 0)>>, !.memory = <<"old">>,
                          !.metadata.token_counts = Some(1)]
TranscriptInputs ==
    <<None, Some(NewSessionTranscript),
      Some(transcript_record(NewSessionTranscript, CoreTokenEvent("old", 0), EarlierState))>>

\* len(transcript) of SessionTranscript.__len__
transcript_len(transcript) == Len(transcript.events)

\* AgentRuntime.__init__: `transcript or SessionTranscript()` takes the transcript
\* passed in unless it is None or empty (its __len__ makes an empty one falsy).
AgentRuntime(transcript) ==
    LET chosen == IF ~IsNone(transcript) /\ transcript_len(Val(transcript)) # 0
                  THEN Val(transcript) ELSE NewSessionTranscript
    IN  [constructed |-> TRUE, closed |-> FALSE, stream |-> FALSE,
         state |-> NewAgentState, transcript |-> chosen, given |-> chosen]

\* The chunks the list-backed source may yield.
RuntimeChunkSet ==
    { EventsChunk(<<>>),
      EventsChunk(<<CoreTokenEvent("Hello", 0)>>),
      EventsChunk(<<CoreToolCallEvent("tool-1", "sum", "{}", TRUE)>>),
      EventsChunk(<<CoreToolResultEvent("tool-1", "Sum is 4")>>),
      EventsChunk(<<CoreFinalEvent("done", Some(6))>>),
      EventsChunk(<<CoreTokenEvent("A", 0), CoreFinalEvent("A", None)>>),
      EventsChunk(<<CoreFinalEvent("done", None), CoreTokenEvent("extra", 1)>>) }

\* A caller constructs the runtime.
RuntimeConstruct ==
    /\ ~runtime.constructed
    /\ \E i \in 1..Len(TranscriptInputs) : runtime' = AgentRuntime(TranscriptInputs[i])
    /\ UNCHANGED <<iterator, consumer, replay>>
    /\ UNCHANGED outside_runtime

\* The consumer calls AgentRuntime.__anext__: the code up to the first suspension,
\* with _ensure_stream and the call of adapter.stream it makes the first time.
RuntimePull ==
    /\ runtime.constructed
    /\ consumer.pc = "idle"
    /\ consumer.pulls < MaxPulls
    /\ LET started == [consumer EXCEPT !.pulls = @ + 1, !.raised = "none",
                                       !.before = Both(runtime, iterator)]
       IN  IF closed_check(runtime)
           THEN /\ consumer' = [started EXCEPT !.outcome = "eos"]
                /\ UNCHANGED <<runtime, iterator>>
           ELSE LET ensured == IF runtime.stream THEN iterator
                               ELSE [NoIterator EXCEPT !.created = TRUE]
                    calls == IF runtime.stream THEN 0 ELSE 1
                IN  runtime_resume([runtime EXCEPT !.stream = TRUE],
                                   iterator_anext(ensured),
                                   [started EXCEPT !.stream_calls = @ + calls])
    /\ UNCHANGED replay
    /\ UNCHANGED outside_runtime

\* The source answers the suspended pull with a chunk.
RuntimeFetchChunk ==
    /\ consumer.pc = "fetch"
    /\ iterator.fetches <= MaxFetches
    /\ \E chunk \in RuntimeChunkSet :
         runtime_resume(runtime, iterator_chunk(iterator, chunk), consumer)
    /\ UNCHANGED replay
    /\ UNCHANGED outside_runtime

\* The source is exhausted: _get_next_chunk raises StopAsyncIteration.
RuntimeFetchEnd ==
    /\ consumer.pc = "fetch"
    /\ runtime_resume(runtime, iterator_end(iterator), consumer)
    /\ UNCHANGED replay
    /\ UNCHANGED outside_runtime

\* The source raises an exception (kind "err") or the pulling task is cancelled
\* while suspended on it (kind "cancelled").
RuntimeFetchRaise ==
    /\ consumer.pc = "fetch"
    /\ \E kind \in {"err", "cancelled"} :
         runtime_resume(runtime, iterator_raise(iterator, kind), consumer)
    /\ UNCHANGED replay
    /\ UNCHANGED outside_runtime

\* Some task calls AgentRuntime.aclose(), possibly while a pull is suspended.
RuntimeAclose ==
    /\ runtime.constructed
    /\ consumer.aclose_calls < MaxAcloseCalls
    /\ LET after == runtime_aclose(runtime, iterator)
       IN  /\ runtime' = after.runtime
           /\ iterator' = after.iterator
    /\ consumer' = [consumer EXCEPT !.aclose_calls = @ + 1]
    /\ UNCHANGED replay
    /\ UNCHANGED outside_runtime

\* A caller starts transcript.replay(): an async generator over the live _events.
TranscriptReplayStart ==
    /\ runtime.constructed
    /\ ~replay.started
    /\ replay' = [replay EXCEPT !.started = TRUE]
    /\ UNCHANGED <<runtime, iterator, consumer>>
    /\ UNCHANGED outside_runtime

\* The caller pulls the replay generator: the `for` loop yields the next event of
\* _events, or ends when its index has reached the length of the list.
TranscriptReplayNext ==
    /\ replay.started
    /\ ~replay.done
    /\ replay' = IF replay.pos < Len(runtime.transcript.events)
                 THEN [replay EXCEPT
                          !.pos = @ + 1,
                          !.yielded = Append(@, runtime.transcript.events[replay.pos + 1])]
                 ELSE [replay EXCEPT !.done = TRUE,
                                     !.total = Len(runtime.transcript.events)]
    /\ UNCHANGED <<runtime, iterator, consumer>>
    /\ UNCHANGED outside_runtime

NextRuntime ==
    \/ RuntimeConstruct
    \/ RuntimePull
    \/ RuntimeFetchChunk
    \/ RuntimeFetchEnd
    \/ RuntimeFetchRaise
    \/ RuntimeAclose
    \/ TranscriptReplayStart
    \/ TranscriptReplayNext

SpecRuntime == Init /\ [][NextRuntime]_vars

(* ---- AgentRuntime handling events; a caller edits runtime.state ---- *)
(* The events are those any adapter stream may hand to __anext__, which   *)
(* passes each to _handle_event; the runtime closes after a Final, so no  *)
(* event is handled after one. runtime.state is a public attribute and    *)
(* its lists and dictionaries can be changed in place by the caller, and  *)
(* so can the event objects it holds: the event dataclasses are not       *)
(* frozen. An event object is held by reference by the live state, by the *)
(* snapshots and by the transcript; its field oid is the identity of the  *)
(* object, the same in every record that stands for it.                   *)
(* A pull is suspended on the stream between _ensure_stream and the       *)
(* hand-over of the event, and the state can be changed there too.        *)

MaxEvents == 4
MaxMutations == 1

\* The events handed to the runtime: a token, fragments of two tool calls that may
\* interleave, a tool result and a Final.
SessionEventInputs ==
    << CoreTokenEvent("Hi", 0),
       CoreToolCallEvent("tool-1", "sum", "{", FALSE),
       CoreToolCallEvent("tool-1", "sum", "}", TRUE),
       CoreToolCallEvent("tool-2", "mul", "[", FALSE),
       CoreToolResultEvent("tool-1", "4"),
       CoreFinalEvent("done", Some(6)) >>

\* The event object number oid, holding the event `event`.
EventObject(event, oid) ==
    [f \in DOMAIN event \cup {"oid"} |-> IF f = "oid" THEN oid ELSE event[f]]

\* `event.content = "edited"` on a TokenEvent, `event.args_fragment = "edited"` on
\* a ToolCallEvent.
edited(event) ==
    IF event.type = "Token" THEN [event EXCEPT !.content = "edited"]
    ELSE [event EXCEPT !.args_fragment = "edited"]

\* The events of a list, the object oid edited in place.
edited_in(events, oid) ==
    [i \in 1..Len(events) |-> IF events[i].oid = oid THEN edited(events[i]) ELSE events[i]]

\* An agent state, live or snapshot, the object oid edited in place.
edited_in_state(state, oid) ==
    [state EXCEPT
        !.tokens = edited_in(@, oid),
        !.last_tool = IF ~IsNone(@) /\ Val(@).oid = oid THEN Some(edited(Val(@))) ELSE @]

\* The event object oid is edited in place: every holder of the object reads the
\* edit, that is the live state, the snapshots made by AgentState.snapshot() (their
\* tokens list and last_tool hold the objects of the live state) and the events of
\* the transcript.
edit_event(rt, oid) ==
    [rt EXCEPT
        !.state = edited_in_state(@, oid),
        !.transcript.events = edited_in(@, oid),
        !.transcript.states = [k \in 1..Len(@) |-> edited_in_state(@[k], oid)]]

\* The changes a caller makes to runtime.state: state.tokens.clear(),
\* state.memory.append("note"), an edit of metadata, top-level key and nested
\* tool-call entries alike, state.tokens[0].content = "edited" and
\* state.last_tool.args_fragment = "edited".
StateMutations == <<"tokens", "memory", "metadata", "token_event", "last_tool_event">>

\* The runtime after the change `how`. An edit of tokens[0] on an empty list and of
\* last_tool when it is None raise and change nothing.
mutate_state(rt, how) ==
    IF how = "tokens" THEN [rt EXCEPT !.state.tokens = <<>>]
    ELSE IF how = "memory" THEN [rt EXCEPT !.state.memory = Append(@, "note")]
    ELSE IF how = "metadata"
    THEN [rt EXCEPT
            !.state.metadata.token_counts = Some(0),
            !.state.metadata.tool_calls =
                IF IsNone(@) THEN @
                ELSE Some([id \in DOMAIN Val(@) |-> [Val(@)[id] EXCEPT !.args = "edited"]])]
    ELSE IF how = "token_event"
    THEN IF rt.state.tokens = <<>> THEN rt
         ELSE edit_event(rt, rt.state.tokens[1].oid)
    ELSE IF IsNone(rt.state.last_tool) THEN rt
    ELSE edit_event(rt, Val(rt.state.last_tool).oid)

\* A caller constructs the runtime of the session.
SessionStart ==
    /\ ~session.rt.constructed
    /\ session' = [session EXCEPT !.rt = AgentRuntime(None)]
    /\ UNCHANGED outside_session

\* The consumer calls __anext__ on a runtime that is not closed: the code up to
\* the suspension on `await iterator.__anext__()`, with _ensure_stream, which sets
\* _stream the first time. The other tasks run while the call is suspended.
SessionPull ==
    /\ session.rt.constructed
    /\ ~session.pulling
    /\ ~closed_check(session.rt)
    /\ Len(session.received) < MaxEvents
    /\ session' = [session EXCEPT !.rt.stream = TRUE, !.pulling = TRUE]
    /\ UNCHANGED outside_session

\* The stream hands an event object over to the suspended call, which resumes:
\* _handle_event, aclose() after a Final, and the return.
SessionHandle ==
    /\ session.pulling
    /\ \E i \in 1..Len(SessionEventInputs) :
         LET event == EventObject(SessionEventInputs[i], Len(session.received) + 1)
             handled == handle_event(session.rt, event)
             after == IF event.type = "Final"
                      THEN runtime_aclose(handled, NoIterator).runtime
                      ELSE handled
         IN  session' = [session EXCEPT !.rt = after,
                                        !.pulling = FALSE,
                                        !.received = Append(@, SessionEventInputs[i]),
                                        !.after = Append(@, handled.state)]
    /\ UNCHANGED outside_session

\* A task changes runtime.state, or an event object it holds, in place, between two
\* pulls or while a pull is suspended on the stream.
SessionMutate ==
    /\ session.rt.constructed
    /\ session.mutations < MaxMutations
    /\ \E i \in 1..Len(StateMutations) :
         session' = [session EXCEPT !.rt = mutate_state(@, StateMutations[i]),
                                    !.mutations = @ + 1]
    /\ UNCHANGED outside_session

NextSession ==
    \/ SessionStart
    \/ SessionPull
    \/ SessionHandle
    \/ SessionMutate

SpecSession == Init /\ [][NextSession]_vars

(* ---- _OpenAINormalizer fed tool-call deltas (openai_adapter.py) ---- *)
(* A normalizer of its own, called as _OpenAIStream.__anext__ calls it:    *)
(* once per chunk of the source, and again after a call that raised, since *)
(* the stream stays open after a normalizer error.                         *)

MaxToolChunks == 4

\* A delta entry that names a whole tool call and carries no arguments.
BareCall(index, id, name) ==
    ToolCallDelta(index, Some(id), Some("function"), Some(Function(Some(name), None)))
\* A continuation delta with a type other than "function".
BadTypeArgs(index, fragment) ==
    ToolCallDelta(index, None, Some("bad"), Some(Function(None, Some(fragment))))

\* {"choices": [{"delta": {"tool_calls": entries}, "finish_reason": finish_reason}]}
ToolCallsChunk(entries, finish_reason) ==
    Chunk(None, OneChoice(Delta(None, Some(entries)), finish_reason), None)

\* The chunks fed: tool calls opened, continued and closed under the indices 0 and 1,
\* interleaved in one chunk and across chunks, an index used again after its call
\* was emitted, an empty fragment, a call with no arguments, a rejected entry, and
\* terminal chunks with and without tool-call entries.
ToolChunkSet ==
    { ToolCallsChunk(<<OpenCall(0, "call_a")>>, None),
      ToolCallsChunk(<<ArgsOnly(0, "\"a\":1"), OpenCall(1, "call_b")>>, None),
      ToolCallsChunk(<<ArgsOnly(1, "")>>, None),
      ToolCallsChunk(<<ArgsOnly(0, "}"), ArgsOnly(1, "}")>>, Some("tool_calls")),
      ToolCallsChunk(<<ArgsOnly(0, "}")>>, Some("tool_calls")),
      ToolCallsChunk(<<BareCall(0, "call_c", "g")>>, Some("tool_calls")),
      ToolCallsChunk(<<WholeCall(0, "call_d"), BareCall(0, "call_e", "g")>>,
                     Some("tool_calls")),
      ToolCallsChunk(<<BadTypeArgs(0, "\"a\":1")>>, None),
      ToolCallsChunk(<<>>, Some("stop")),
      ToolCallsChunk(<<ArgsOnly(0, "}")>>, Some("length")),
      ToolCallsChunk(<<WholeCall(1, "call_b")>>, Some("content_filter")) }

\* One call of normalize_chunk as its caller sees it: the chunk, whether it raised,
\* the events returned (none when it raised), and the normalizer before and after.
Fed(before, chunk) ==
    LET r == normalize_chunk(before, chunk)
    IN  [chunk |-> chunk, err |-> r.err, events |-> IF r.err THEN <<>> ELSE r.events,
         before |-> before, after |-> r.st]

\* The normalizer as the latest call left it.
FedState == IF fed = <<>> THEN NormalizerInit ELSE fed[Len(fed)].after

\* The stream hands the next chunk of its source to normalize_chunk. A Final is the
\* last event of its chunk and the stream closes as it hands it over, so no chunk
\* is fetched once a Final was built.
FeedChunk ==
    /\ Len(fed) < MaxToolChunks
    /\ ~FedState.final_emitted
    /\ \E chunk \in ToolChunkSet : fed' = Append(fed, Fed(FedState, chunk))
    /\ UNCHANGED outside_fed

NextFed == FeedChunk

SpecFed == Init /\ [][NextFed]_vars

(* ---- OpenAIStreamNormalizer (src/foundry/core/adapters/openai.py) ---- *)
(* The normalizer of the core OpenAIStreamIterator. Its events carry no    *)
(* seq_id or ts; a tool call is emitted fragment by fragment, and its      *)
(* accumulator keeps only the id and the name.                             *)

MaxCoreChunks == 5

\* _ToolCallState() of the core adapter.
NewCoreToolCallState == [call_id |-> None, name |-> None]

\* OpenAIStreamNormalizer.__init__
CoreNormalizerInit ==
    [token_index |-> 0, text_fragments |-> <<>>, tool_states |-> EmptyDict,
     final_emitted |-> FALSE, last_total_tokens |-> None,
     last_tool_result_output |-> None]

\* _ToolCallState.update_from_payload of the core adapter: the accumulator after the
\* call and whether the call raised AdapterError.
core_update_from_payload(state, payload) ==
    LET badId == ~IsNone(payload.id) /\ Val(payload.id) = ""
        s1 == IF ~IsNone(payload.id) /\ ~badId
              THEN [state EXCEPT !.call_id = payload.id] ELSE state
        badType == ~IsNone(payload.type) /\ Val(payload.type) # "function"
        fn == payload.function
        hasName == ~IsNone(fn) /\ ~IsNone(Val(fn).name)
        badName == hasName /\ Val(Val(fn).name) = ""
        s2 == IF hasName /\ ~badName THEN [s1 EXCEPT !.name = Val(fn).name] ELSE s1
    IN  IF badId THEN [err |-> TRUE, state |-> state]
        ELSE IF badType THEN [err |-> TRUE, state |-> s1]
        ELSE IF badName THEN [err |-> TRUE, state |-> s1]
        ELSE [err |-> FALSE, state |-> s2]

\* _ToolCallState.extract_arguments: the fragment, None when there is no function
\* payload, no arguments or an empty string.
core_extract_arguments(fn_payload) ==
    IF IsNone(fn_payload) THEN None
    ELSE IF IsNone(Val(fn_payload).arguments) THEN None
    ELSE IF Val(Val(fn_payload).arguments) = "" THEN None
    ELSE Val(fn_payload).arguments

\* is_final that is never set.
core_is_final_Never(finish_reason) == FALSE
\* `is_final=finish_reason == "tool_calls"` of _normalize_tool_calls.
core_is_final(finish_reason) == finish_reason = Some("tool_calls")

\* One iteration of the for loop of OpenAIStreamNormalizer._normalize_tool_calls.
core_normalize_tool_call_item(r, item, finish_reason) ==
    LET st == r.st
        raw_index == item.index
        state0 == IF raw_index \in DOMAIN st.tool_states
                  THEN st.tool_states[raw_index] ELSE NewCoreToolCallState
        upd == core_update_from_payload(state0, item)
        state == upd.state
        r1 == [r EXCEPT !.st.tool_states = DictSet(@, raw_index, state)]
        fragment == core_extract_arguments(item.function)
        ev == CoreToolCallEvent(Val(state.call_id), Val(state.name), Val(fragment),
                                core_is_final(finish_reason))
    IN  IF upd.err THEN Raise(r1)
        ELSE IF IsNone(fragment) THEN r1
        ELSE IF IsNone(state.call_id) THEN Raise(r1)
        ELSE IF IsNone(state.name) THEN Raise(r1)
        ELSE [r1 EXCEPT !.events = Append(@, ev)]

\* OpenAIStreamNormalizer._normalize_tool_calls: the loop; a raise ends it.
RECURSIVE core_normalize_tool_calls(_, _, _)
core_normalize_tool_calls(r, payload, finish_reason) ==
    IF r.err \/ payload = <<>> THEN r
    ELSE core_normalize_tool_calls(
             core_normalize_tool_call_item(r, Head(payload), finish_reason),
             Tail(payload), finish_reason)

\* OpenAIStreamNormalizer._normalize_delta: content first, then tool calls.
core_normalize_delta(r, delta, finish_reason) ==
    LET st == r.st
        c == delta.content
        ev == CoreTokenEvent(Val(c), st.token_index)
        st1 == [st EXCEPT !.token_index = @ + 1,
                          !.text_fragments = Append(@, Val(c)),
                          !.last_tool_result_output = None]
        r1 == IF IsNone(c) \/ Val(c) = "" THEN r
              ELSE Progress(st1, Append(r.events, ev), FALSE)
    IN  IF IsNone(delta.tool_calls) THEN r1
        ELSE core_normalize_tool_calls(r1, Val(delta.tool_calls), finish_reason)

\* OpenAIStreamNormalizer._normalize_tool_result
core_normalize_tool_result(r, payload) ==
    IF payload.id = "" THEN Raise(r)
    ELSE Progress([r.st EXCEPT !.last_tool_result_output = Some(payload.output)],
                  Append(r.events, CoreToolResultEvent(payload.id, payload.output)),
                  FALSE)

\* OpenAIStreamNormalizer._maybe_build_final_event; _extract_total_tokens and
\* _render_final_output are those of the canonical normalizer, line for line.
core_maybe_build_final_event(r, chunk, finish_reason) ==
    LET st == r.st
        tt == extract_total_tokens(chunk)
        st1 == IF IsNone(tt.total) THEN st ELSE [st EXCEPT !.last_total_tokens = tt.total]
        ev == CoreFinalEvent(render_final_output(st1), st1.last_total_tokens)
    IN  IF st.final_emitted THEN r
        ELSE IF tt.err THEN Raise(r)
        ELSE IF finish_reason \notin TerminalReasons THEN [r EXCEPT !.st = st1]
        ELSE Progress([st1 EXCEPT !.final_emitted = TRUE], Append(r.events, ev), FALSE)

\* OpenAIStreamNormalizer._extract_choice: None for a missing and for an empty
\* choices sequence, else its first element.
core_extract_choice(chunk) ==
    IF IsNone(chunk.choices) THEN None
    ELSE IF Val(chunk.choices) = <<>> THEN None
    ELSE Some(Val(chunk.choices)[1])

\* OpenAIStreamNormalizer.normalize_chunk: [st, events, err]; err stands for
\* AdapterError, and then no event list is returned to the caller.
core_normalize_chunk(st, chunk) ==
    LET r0 == Progress(st, <<>>, FALSE)
        r1 == IF IsNone(chunk.tool_result) THEN r0
              ELSE core_normalize_tool_result(r0, Val(chunk.tool_result))
        choice == core_extract_choice(chunk)
        finish_reason == Val(choice).finish_reason
        r2 == core_normalize_delta(r1, extract_delta(Val(choice)), finish_reason)
        r3 == IF finish_reason = Some("tool_calls")
              THEN [r2 EXCEPT !.st.text_fragments = <<>>] ELSE r2
    IN  IF r1.err THEN r1
        ELSE IF IsNone(choice) THEN r1
        ELSE IF r2.err THEN r2
        ELSE core_maybe_build_final_event(r3, chunk, finish_reason)

\* The provider chunks of the tool-call flow (test_openai_streaming_adapter.py).
ToolCallFlow ==
    << Chunk(None, OneChoice(Delta(Some("Calling calculator"), None), None), None),
       ToolCallsChunk(<<ToolCallDelta(0, Some("tool-1"), Some("function"),
                          Some(Function(Some("sum"), Some("{\"a\": 1"))))>>, None),
       ToolCallsChunk(<<ArgsOnly(0, ", \"b\": 3}")>>, Some("tool_calls")),
       Chunk(Some(ToolResult("tool-1", "Sum is 4")), None, None),
       Chunk(None, OneChoice(Delta(None, None), Some("stop")), Some(Usage(Some(6)))) >>

\* The chunks fed to the core normalizer: those of the tool-call flow, an empty
\* choices sequence, an empty tool_calls sequence, two indices in one chunk, an
\* entry that renames index 0 and carries no fragment, an empty fragment, and a
\* fragment for an index whose id may be unknown.
CoreChunkSet ==
    { ToolCallFlow[i] : i \in 1..Len(ToolCallFlow) } \cup
    { Chunk(None, Some(<<>>), None),
      ToolCallsChunk(<<>>, None),
      ToolCallsChunk(<<ArgsOnly(0, "x"),
                       ToolCallDelta(1, Some("tool-2"), Some("function"),
                          Some(Function(Some("mul"), Some("["))))>>, None),
      ToolCallsChunk(<<BareCall(0, "tool-3", "g"), ArgsOnly(0, "")>>, None),
      ToolCallsChunk(<<ArgsOnly(1, "y")>>, Some("tool_calls")) }

\* One call of normalize_chunk as its caller sees it.
CoreFed(before, chunk) ==
    LET r == core_normalize_chunk(before, chunk)
    IN  [chunk |-> chunk, err |-> r.err, events |-> IF r.err THEN <<>> ELSE r.events,
         before |-> before, after |-> r.st]

\* The normalizer as the latest call left it.
CoreState == IF core = <<>> THEN CoreNormalizerInit ELSE core[Len(core)].after

\* BaseStreamIterator.__anext__ hands the next chunk of the source to
\* normalize_chunk. It closes when it hands over a Final, and an AdapterError
\* leaves __anext__ with the iterator still open.
CoreFeedChunk ==
    /\ Len(core) < MaxCoreChunks
    /\ ~CoreState.final_emitted
    /\ \E chunk \in CoreChunkSet : core' = Append(core, CoreFed(CoreState, chunk))
    /\ UNCHANGED outside_core

NextCore == CoreFeedChunk

SpecCore == Init /\ [][NextCore]_vars

(* ---- properties ---- *)

Positions(events, type) == {i \in 1..Len(events) : events[i].type = type}
CountOf(events, type) == Cardinality(Positions(events, type))

\* C1: the i-th event handed to the consumer has seq_id = i - 1, and the ts of the
\* events handed over is strictly increasing.
C1_DenseSeqIncreasingTs ==
    \A i \in 1..Len(delivered) :
        /\ delivered[i].seq_id = i - 1
        /\ i < Len(delivered) => delivered[i].ts < delivered[i + 1].ts

PulledToTheEnd == pull.kind = "eos" /\ close_calls = 0 /\ ~had_error

\* C3 as stated: a stream pulled to end-of-stream without close and without an
\* error has handed over exactly one Final, as its last event.
C3_ExactlyOneFinal ==
    PulledToTheEnd =>
        /\ CountOf(delivered, "Final") = 1
        /\ delivered[Len(delivered)].type = "Final"

IsTerminalChunk(chunk) ==
    /\ ~IsNone(chunk.choices)
    /\ Val(chunk.choices) # <<>>
    /\ Val(chunk.choices)[1].finish_reason \in {<<"stop">>, <<"length">>, <<"content_filter">>}

\* C3 amended: a stream pulled to end-of-stream without close and without an error
\* has handed over at most one Final, as its last event, and it has handed one over
\* exactly when the source yielded a chunk whose finish_reason is stop, length or
\* content_filter; a source that ends without such a chunk ends the stream with
\* no Final.
C3_FinalIffTerminalChunk ==
    PulledToTheEnd =>
        /\ CountOf(delivered, "Final") <= 1
        /\ \A i \in 1..Len(delivered) : delivered[i].type = "Final" => i = Len(delivered)
        /\ HasFinal(delivered) <=>
               \E i \in 1..Len(chunks_seen) : IsTerminalChunk(chunks_seen[i])

C3_Witness == PulledToTheEnd /\ delivered # <<>> /\ ~HasFinal(delivered)

\* C4: no two ToolCall events of a stream carry the same call_id.
C4_ToolCallIdUnique ==
    \A i, j \in Positions(delivered, "ToolCall") :
        i # j => delivered[i].call_id # delivered[j].call_id

LastChunk == chunks_seen[Len(chunks_seen)]

\* The latest chunk was normalised without error and carries finish_reason
\* "tool_calls".
ToolTurnClosed ==
    /\ chunks_seen # <<>>
    /\ last_norm.ok
    /\ ~IsNone(LastChunk.choices)
    /\ Val(LastChunk.choices)[1].finish_reason = <<"tool_calls">>

Announced(state) == ~IsNone(state.call_id) /\ ~IsNone(state.name)

\* C5 as stated: once a chunk with finish_reason "tool_calls" has been normalised,
\* no accumulator with a known call_id and name is left un-emitted.
C5_NoAnnouncedCallLeft ==
    ToolTurnClosed =>
        \A k \in DOMAIN normalizer.tool_states : ~Announced(normalizer.tool_states[k])

\* The delta.tool_calls entries of a chunk that has a choice.
ToolCallEntries(chunk) ==
    LET delta == Val(chunk.choices)[1].delta
    IN  IF IsNone(delta) \/ IsNone(Val(delta).tool_calls) THEN <<>>
        ELSE Val(Val(delta).tool_calls)

\* C5 amended: an accepted chunk that carries finish_reason "tool_calls" yields
\* exactly one ToolCall per tool-call entry it contains, and the accumulator of
\* every index it names is removed; tool calls of indices the chunk does not name
\* are not emitted by it.
C5_EntriesOfClosingChunkEmitted ==
    ToolTurnClosed =>
        LET entries == ToolCallEntries(LastChunk)
        IN  /\ CountOf(last_norm.events, "ToolCall") = Len(entries)
            /\ \A i \in 1..Len(entries) :
                   entries[i].index \notin DOMAIN normalizer.tool_states

C5_Witness ==
    /\ ToolTurnClosed
    /\ ToolCallEntries(LastChunk) # <<>>
    /\ \E k \in DOMAIN normalizer.tool_states : Announced(normalizer.tool_states[k])

Rank(event) ==
    CASE event.type = "ToolResult" -> 0
      [] event.type = "Token" -> 1
      [] event.type = "ToolCall" -> 2
      [] event.type = "Final" -> 3

\* C6: the list returned by normalize_chunk holds the ToolResult (at most one)
\* first, then Tokens, then ToolCalls, then the Final (at most one) last; the
\* events of that list handed over so far are its first last_handed ones, in
\* order, and the buffer holds the rest unless a close emptied it.
C6_ChunkEmissionOrder ==
    LET events == last_norm.events
        n == Len(events)
        d == Len(delivered)
    IN  /\ \A i, j \in 1..n : i < j => Rank(events[i]) <= Rank(events[j])
        /\ CountOf(events, "ToolResult") <= 1
        /\ CountOf(events, "Final") <= 1
        /\ last_handed <= n
        /\ last_handed <= d
        /\ SubSeq(delivered, d - last_handed + 1, d) = SubSeq(events, 1, last_handed)
        /\ buffer = SubSeq(events, last_handed + 1, n) \/ buffer = <<>>

C6_Witness ==
    /\ CountOf(last_norm.events, "ToolResult") = 1
    /\ CountOf(last_norm.events, "Token") = 1
    /\ CountOf(last_norm.events, "ToolCall") = 1
    /\ last_handed = 3

\* C7: the Token events handed to the consumer carry index 0, 1, 2, ... in order.
C7_TokenIndexDense ==
    LET IsToken(e) == e.type = "Token"
        tokens == SelectSeq(delivered, IsToken)
    IN  \A i \in 1..Len(tokens) : tokens[i].index = i - 1

\* C8: the provider source's closer is invoked at most once, whatever the number
\* and interleaving of the aclose() calls and of the pulls that close.
C8_CloserAtMostOnce == closer_calls <= 1

C8_Witness ==
    /\ closer_calls = 1
    /\ close_calls >= 2
    /\ \A t \in {Puller} \cup Closers : pc[t] = "idle"

\* C9: a pull that starts after a call of aclose() has returned yields
\* end-of-stream.
C9_PullAfterCloseEnds == pull.after_close => pull.kind = "eos"

\* C10 as stated: a pull during which aclose() was called while it was waiting for
\* the source either returns an event or raises end-of-stream, and the closer is
\* invoked exactly once.
C10_RacedPullEventOrEos ==
    pull.raced /\ pull.kind # "running" =>
        /\ pull.kind \in {"event", "eos"}
        /\ closer_calls = 1

\* C10 amended: such a pull never asks the source for a chunk beyond the one it was
\* waiting for, and it ends in one of three ways: it returns the first event
\* normalised from that chunk; it raises end-of-stream (the source ended, or the
\* chunk gave no event); or it raises AdapterStreamError because the source failed
\* or the normalizer rejected that chunk. The closer is invoked exactly once.
C10_RacedPullOutcomes ==
    pull.raced =>
        /\ closer_calls = 1
        /\ fetched <= pull.race_fetched + 1
        /\ pull.kind = "event" =>
               /\ pull.src = "chunk"
               /\ last_norm.ok
               /\ pull.event = Some(last_norm.events[1])
        /\ pull.kind = "eos" =>
               \/ pull.src = "end"
               \/ pull.src = "chunk" /\ last_norm.ok /\ last_norm.events = <<>>
        /\ pull.kind = "err" =>
               \/ pull.src = "error"
               \/ pull.src = "chunk" /\ ~last_norm.ok

C10_Witness == pull.raced /\ pull.kind = "err" /\ pull.src = "chunk" /\ closer_calls = 1

\* C11: when the provider source raises an error other than end-of-source during a
\* pull, that pull raises AdapterStreamError; when the error reaches the consumer
\* the iterator is closed, its buffer is empty and the source's closer has been
\* invoked exactly once and has completed; every later pull yields end-of-stream.
C11_SourceErrorClosesStream ==
    /\ pull.src = "error" /\ pull.kind # "running" =>
           /\ pull.kind = "err"
           /\ closed
           /\ buffer = <<>>
           /\ closer_calls = 1
           /\ close_lock = Free
    /\ pull.after_error = "error" => pull.kind = "eos"

C11_Witness ==
    /\ pull.after_error = "error"
    /\ pull.kind = "eos"
    /\ delivered # <<>>
    /\ closer_calls = 1

\* C12: whenever a pull raises an error, the iterator is closed and the source's
\* closer has been invoked when the error reaches the consumer, and every later
\* pull yields end-of-stream.
C12_AnyErrorClosesStream ==
    /\ pull.kind = "err" => closed /\ closer_calls = 1
    /\ pull.after_error # "none" /\ pull.kind # "running" => pull.kind = "eos"

\* The events returned by normalize_chunk for `chunks`, fed in order to a normalizer
\* in state st: the lists of the accepted chunks, one after the other.
RECURSIVE Replay(_, _)
Replay(st, chunks) ==
    IF chunks = <<>> THEN <<>>
    ELSE LET r == normalize_chunk(st, Head(chunks))
         IN  (IF r.err THEN <<>> ELSE r.events) \o Replay(r.st, Tail(chunks))

Normalised(chunks) == Replay(NormalizerInit, chunks)

\* C13: when the provider source signals end-of-source, the pull in progress raises
\* end-of-stream; by then every event normalised from the chunks consumed has been
\* handed to the consumer, the iterator is closed and the source's closer has been
\* invoked once and has completed.
C13_EndOfSource ==
    pull.src = "end" /\ pull.kind # "running" =>
        /\ pull.kind = "eos"
        /\ delivered = Normalised(chunks_seen)
        /\ closed
        /\ closer_calls = 1
        /\ close_lock = Free

C13_Witness ==
    /\ pull.src = "end"
    /\ pull.kind = "eos"
    /\ Len(delivered) >= 2
    /\ closer_calls = 1

HasFinishReason(chunk, reason) ==
    /\ ~IsNone(chunk.choices)
    /\ Val(chunk.choices) # <<>>
    /\ Val(chunk.choices)[1].finish_reason = Some(reason)

\* The output C14 gives to a Final: `tokens` are the contents of the Tokens emitted
\* since the last chunk with finish_reason "tool_calls", `result` the output of the
\* most recent ToolResult if no Token was emitted after it.
ClaimedOutput(tokens, result) ==
    IF tokens # <<>> THEN JoinStr(tokens)
    ELSE IF ~IsNone(result) THEN Val(result)
    ELSE ""

\* acc = [tokens, result, ok] after the emitted events `events`; ok turns false at a
\* Final whose output is not the claimed one.
RECURSIVE OutputsAfterEvents(_, _)
OutputsAfterEvents(acc, events) ==
    IF events = <<>> THEN acc
    ELSE LET e == Head(events)
             acc1 == CASE e.type = "Token" ->
                            [acc EXCEPT !.tokens = Append(@, e.content), !.result = None]
                       [] e.type = "ToolResult" ->
                            [acc EXCEPT !.result = Some(e.output)]
                       [] e.type = "Final" ->
                            [acc EXCEPT !.ok = @ /\ e.output = ClaimedOutput(acc.tokens,
                                                                             acc.result)]
                       [] OTHER -> acc
         IN  OutputsAfterEvents(acc1, Tail(events))

RECURSIVE FinalOutputsAsClaimed(_, _, _)
FinalOutputsAsClaimed(st, chunks, acc) ==
    IF chunks = <<>> THEN acc.ok
    ELSE LET chunk == Head(chunks)
             r == normalize_chunk(st, chunk)
             acc1 == IF r.err THEN acc ELSE OutputsAfterEvents(acc, r.events)
             acc2 == IF ~r.err /\ HasFinishReason(chunk, "tool_calls")
                     THEN [acc1 EXCEPT !.tokens = <<>>] ELSE acc1
         IN  FinalOutputsAsClaimed(r.st, Tail(chunks), acc2)

\* C14: the output of every Final the normalizer emits is the concatenation of the
\* contents of the Tokens emitted since the last chunk with finish_reason
\* "tool_calls" if there is one such Token, else the output of the most recent
\* ToolResult if no Token was emitted after it, else the empty string.
C14_FinalOutput ==
    FinalOutputsAsClaimed(NormalizerInit, chunks_seen,
                          [tokens |-> <<>>, result |-> None, ok |-> TRUE])

\* Every Final emitted while `chunks` are fed to a normalizer in state st carries
\* the total_tokens of the most recent accepted chunk that carried usage (`usage`
\* before the first of `chunks`), the chunk that emits it included.
RECURSIVE FinalUsageAsClaimed(_, _, _)
FinalUsageAsClaimed(st, chunks, usage) ==
    IF chunks = <<>> THEN TRUE
    ELSE LET chunk == Head(chunks)
             r == normalize_chunk(st, chunk)
             carried == ~IsNone(chunk.usage) /\ ~IsNone(Val(chunk.usage).total_tokens)
             usage1 == IF carried /\ ~r.err THEN Val(chunk.usage).total_tokens ELSE usage
             events == IF r.err THEN <<>> ELSE r.events
         IN  /\ \A i \in Positions(events, "Final") : events[i].usage = usage1
             /\ FinalUsageAsClaimed(r.st, Tail(chunks), usage1)

\* C15: the usage of the Final is the total_tokens of the most recent chunk, up to
\* and including the terminal chunk, that carried usage, with or without choices;
\* it is absent only when no such chunk carried usage.
C15_FinalUsage == FinalUsageAsClaimed(NormalizerInit, chunks_seen, None)

\* C18: once a Final has been handed to the consumer and the buffer is empty, the
\* iterator is closed and the source's closer has been invoked once and has
\* completed; the pull is never waiting for the source again, and the latest chunk
\* the source was asked for is the one whose event list holds that Final.
C18_FinalClosesAndStopsFetching ==
    HasFinal(delivered) =>
        /\ buffer = <<>> => closed /\ closer_calls = 1 /\ close_lock = Free
        /\ pc[Puller] # "fetch"
        /\ last_norm.ok
        /\ HasFinal(last_norm.events)
        /\ IsTerminalChunk(LastChunk)

C18_Witness ==
    /\ HasFinal(delivered)
    /\ buffer = <<>>
    /\ close_calls = 0
    /\ closer_calls = 1
    /\ fetched < MaxChunks
    /\ pull.after_final

\* The events the normalizer returned for `chunks`, one chunk's list after the other.
RECURSIVE BaseNormalised(_)
BaseNormalised(chunks) ==
    IF chunks = <<>> THEN <<>>
    ELSE Head(chunks).events \o BaseNormalised(Tail(chunks))

\* C19: the events handed to the consumer are the first ones the normalizer
\* produced, in its order (chunk order, then the order inside each chunk's list),
\* none duplicated or skipped; while the iterator is not closed the buffer holds
\* all the others; every chunk the source yielded went to the normalizer once, in
\* source order; after a chunk that normalises to no events the same pull is
\* waiting for the next chunk (unless the iterator was closed meanwhile).
C19_EventsInNormalizerOrder ==
    LET produced == BaseNormalised(chunks_seen)
    IN  /\ Len(delivered) <= Len(produced)
        /\ delivered = SubSeq(produced, 1, Len(delivered))
        /\ ~closed => delivered \o buffer = produced
        /\ fetched = Len(chunks_seen)
        /\ pull.src = "chunk" /\ last_norm.events = <<>> /\ ~closed =>
               pull.kind = "running" /\ pc[Puller] = "fetch"

C19_Witness ==
    /\ ~closed
    /\ Len(chunks_seen) = 3
    /\ chunks_seen[2].events = <<>>
    /\ Len(chunks_seen[3].events) = 2
    /\ Len(delivered) = 3

\* C16: two streams whose sources yielded the same chunks in the same order and
\* that were pulled to end-of-stream have handed their consumers the same sequence
\* of events, equal in type, payload, seq_id and ts.
C16_SameChunksSameEvents ==
    \A s, t \in StreamIds :
        /\ streams[s].outcome = "eos"
        /\ streams[t].outcome = "eos"
        /\ streams[s].chunks = streams[t].chunks
        => streams[s].delivered = streams[t].delivered

C16_Witness ==
    /\ streams[1].outcome = "eos"
    /\ streams[2].outcome = "eos"
    /\ streams[1].chunks = streams[2].chunks
    /\ Len(streams[1].chunks) = 2
    /\ Len(streams[2].delivered) >= 3

\* C17: every stream of an adapter has closures of its own, its normalizer starts
\* with sequence number 0, timestamp 0 and token index 0, and however the pulls on
\* the streams interleave, the events a stream has handed over are the first events
\* it produces when pulled alone on the same chunks (all of them once it has ended).
C17_StreamsIndependent ==
    \A s \in StreamIds :
        LET r == streams[s]
            alone == Normalised(r.chunks)
        IN  r.created =>
                /\ \A t \in StreamIds \ {s} :
                       streams[t].created =>
                           /\ streams[t].seq_factory # r.seq_factory
                           /\ streams[t].ts_factory # r.ts_factory
                /\ r.chunks = <<>> =>
                       /\ r.normalizer = NormalizerInit
                       /\ monotonic_seq(seq_counters[r.seq_factory]) = 0
                       /\ stable_ts(ts_counters[r.ts_factory]) = 0
                /\ Len(r.delivered) <= Len(alone)
                /\ r.delivered = SubSeq(alone, 1, Len(r.delivered))
                /\ r.outcome = "eos" => r.delivered = alone

C17_Witness ==
    /\ streams[1].waiting
    /\ streams[2].waiting
    /\ Len(streams[1].delivered) >= 2
    /\ Len(streams[2].delivered) >= 1
    /\ streams[1].chunks # streams[2].chunks

\* C20: for every valid ToolSpec s, constructing a ToolSpec again from s.name,
\* s.description and the frozen s.parameters succeeds and yields a spec equal to s.
C20_ConstructAgainIsEqual ==
    ~IsNone(tool_again) =>
        /\ Val(tool_again).ok
        /\ Val(Val(tool_again).value) = Val(Val(tool_spec).result.value)
\* The JSON value that the arguments of a payload entry denote: a mapping stands
\* for itself (a tuple for the list of its items), a str for the document it holds;
\* an entry without arguments, or with a str that is no document, denotes none.
PayloadArguments(item) ==
    LET f == item.v["function"].v
        raw == f["arguments"]
    IN  IF "arguments" \notin DOMAIN f THEN JSONDecodeError
        ELSE IF IsMapping(raw) THEN Decoded(json_round_trip(JDict(raw.v)))
        ELSE json_loads(raw.v)

\* The entry `back` has the id, type, name and decoded arguments of the entry p.
SameCall(back, p) ==
    /\ back.v["id"] = p.v["id"]
    /\ back.v["type"] = p.v["type"]
    /\ back.v["function"].v["name"] = p.v["function"].v["name"]
    /\ PayloadArguments(back).ok
    /\ PayloadArguments(back) = PayloadArguments(p)

\* C21: for every payload p that normalize_tool_calls accepts, tool_call_to_openai
\* turns each resulting ToolCall into an entry with the id, type, name and
\* JSON-decoded arguments of the entry of p it came from, and normalising those
\* entries again gives ToolCalls equal to the first result.
C21_ToolCallsRoundTrip ==
    (/\ ~IsNone(bridge)
     /\ Val(bridge).op = "normalize_tool_calls"
     /\ Val(bridge).result.ok
     /\ ~IsNone(Val(bridge).back))
    => LET p == Val(bridge).input.v
           back == Val(Val(bridge).back)
       IN  /\ Len(back) = Len(p)
           /\ \A i \in 1..Len(p) : back[i].ok /\ SameCall(Val(back[i].value), p[i])
           /\ ~IsNone(Val(bridge).again) =>
                  Val(Val(bridge).again) = Val(bridge).result

\* A plain JSON value: dicts and lists all the way down, no read-only wrapper.
RECURSIVE IsPlainJson(_)
IsPlainJson(value) ==
    IF value.tag = "dict" THEN \A key \in DOMAIN value.v : IsPlainJson(value.v[key])
    ELSE IF value.tag = "list" THEN \A i \in 1..Len(value.v) : IsPlainJson(value.v[i])
    ELSE value.tag \in {"null", "bool", "int", "float", "str"}

\* The record is {type: "function", function: {name, description?, parameters}}
\* of the spec, with the parameters as plain JSON.
IsRecordOf(record, spec) ==
    /\ record.tag = "dict"
    /\ DOMAIN record.v = {"type", "function"}
    /\ record.v["type"] = JStr("function")
    /\ LET function == record.v["function"]
       IN  /\ function.tag = "dict"
           /\ DOMAIN function.v = {"name", "parameters"} \cup
                                  (IF IsNone(spec.description) THEN {} ELSE {"description"})
           /\ function.v["name"] = JStr(spec.name)
           /\ ~IsNone(spec.description) =>
                  function.v["description"] = JStr(Val(spec.description))
           /\ IsPlainJson(function.v["parameters"])
           /\ freeze_json_structure(function.v["parameters"]) = spec.parameters

\* C22: tool_specs_to_openai raises AdapterError, and returns no list, for every
\* sequence of ToolSpecs in which two entries have the same name; for a sequence of
\* ToolSpecs with pairwise distinct names it returns one record per spec, in input
\* order.
C22_DuplicateNamesRejected ==
    (/\ ~IsNone(bridge)
     /\ Val(bridge).op = "tool_specs_to_openai"
     /\ Val(bridge).input.tag = "list"
     /\ \A i \in 1..Len(Val(bridge).input.v) : Val(bridge).input.v[i].tag = "ToolSpec")
    => LET specs == Val(bridge).input.v
           result == Val(bridge).result
           duplicate == \E i, j \in 1..Len(specs) : i < j /\ specs[i].v.name = specs[j].v.name
       IN  IF duplicate
           THEN ~result.ok /\ IsNone(result.value)
           ELSE /\ result.ok
                /\ Len(Val(result.value)) = Len(specs)
                /\ \A i \in 1..Len(specs) : IsRecordOf(Val(result.value)[i], specs[i].v)

\* A sequence of three ToolSpecs whose first and last have the same name is
\* rejected, and a sequence of two with distinct names is converted.
C22_Witness ==
    /\ ~IsNone(bridge)
    /\ Val(bridge).op = "tool_specs_to_openai"
    /\ Val(bridge).input.tag = "list"
    /\ Len(Val(bridge).input.v) = 3
    /\ \A i \in 1..3 : Val(bridge).input.v[i].tag = "ToolSpec"
    /\ Val(bridge).input.v[1].v.name = Val(bridge).input.v[3].v.name
    /\ Val(bridge).input.v[1].v.name # Val(bridge).input.v[2].v.name
    /\ ~Val(bridge).result.ok

\* The invariant of a Message.
MessageInvariant(m) ==
    \/ m.content # ""
    \/ ~IsNone(m.tool_calls) /\ Val(m.tool_calls) # <<>>

\* The Python value is the empty string, or None, or left out (JNull).
NoContent(content) == content.tag = "null" \/ (content.tag = "str" /\ content.v = "")

\* The Python value is None or left out, or a sequence without elements.
NoToolCalls(tool_calls) ==
    tool_calls.tag = "null" \/ (IsSequence(tool_calls) /\ tool_calls.v = <<>>)

\* C23: every Message that a construction or openai_to_messages has produced has a
\* content other than "" or a non-empty tuple of tool calls, and arguments or a
\* payload entry with neither are rejected with no Message produced.
C23_MessageInvariant ==
    ~IsNone(message) =>
        LET call == Val(message)
        IN  /\ (call.op = "Message" /\ call.result.ok) =>
                   MessageInvariant(Val(call.result.value))
            /\ (call.op = "openai_to_messages" /\ call.result.ok) =>
                   \A i \in 1..Len(Val(call.result.value)) :
                       MessageInvariant(Val(call.result.value)[i])
            /\ (/\ call.op = "Message"
                /\ NoContent(call.input.content)
                /\ NoToolCalls(call.input.tool_calls))
               => ~call.result.ok /\ IsNone(call.result.value)
            /\ (/\ call.op = "openai_to_messages"
                /\ \E i \in 1..Len(call.input.v) :
                      LET item == call.input.v[i]
                      IN  /\ IsMapping(item)
                          /\ NoContent(dict_get(item, "content"))
                          /\ NoToolCalls(dict_get(item, "tool_calls")))
               => ~call.result.ok /\ IsNone(call.result.value)

\* A payload of two entries is accepted whose second Message has the empty content
\* and one tool call.
C23_Witness ==
    /\ ~IsNone(message)
    /\ Val(message).op = "openai_to_messages"
    /\ Val(message).result.ok
    /\ Len(Val(Val(message).result.value)) = 2
    /\ Val(Val(message).result.value)[2].content = ""
    /\ Len(Val(Val(Val(message).result.value)[2].tool_calls)) = 1

\* C24: constructing an adapter with default options that contain messages, stream
\* or tools is rejected, and a call whose options contain one of these keys is
\* rejected without a request being sent.
C24_ReservedKeysRejected ==
    ~IsNone(facade) =>
        LET f == Val(facade)
        IN  /\ (/\ IsMapping(f.args.default_params)
                /\ DOMAIN f.args.default_params.v \cap {"messages", "stream", "tools"} # {})
               => ~f.adapter.ok
            /\ (/\ ~IsNone(f.request)
                /\ DOMAIN Val(f.request).options \cap {"messages", "stream", "tools"} # {})
               => /\ ~Val(f.request).result.ok
                  /\ Val(f.request).result.provider_calls = 0

\* The model option of the call, when one is given.
AdHocModel(request) ==
    IF "model" \in DOMAIN request.options /\ truthy(request.options["model"])
    THEN Some(request.options["model"].v) ELSE None

\* The default models the adapter was configured with: the default_model argument
\* and the model entry of the default options (a caller may give both).
ConfiguredModels(args) ==
    (IF truthy(args.default_model) THEN {args.default_model.v} ELSE {}) \cup
    (IF /\ IsMapping(args.default_params)
        /\ "model" \in DOMAIN args.default_params.v
        /\ truthy(args.default_params.v["model"])
     THEN {args.default_params.v["model"].v} ELSE {})

\* C25: the model of every request payload is the model option of the call when
\* one is given, else a default model the adapter was configured with; with
\* neither, the call fails and the provider is not called.
C25_EffectiveModel ==
    (~IsNone(facade) /\ ~IsNone(Val(facade).request)) =>
        LET f == Val(facade)
            request == Val(f.request)
            expected == IF ~IsNone(AdHocModel(request)) THEN {Val(AdHocModel(request))}
                        ELSE ConfiguredModels(f.args)
        IN  /\ request.result.ok =>
                   /\ Val(request.result.value)["model"].tag = "str"
                   /\ Val(request.result.value)["model"].v \in expected
            /\ expected = {} =>
                   ~request.result.ok /\ request.result.provider_calls = 0

\* C26: once a pull of the AgentRuntime has returned a Final event, the runtime is
\* closed and the underlying stream iterator has been closed, and every later pull
\* raises end-of-stream without pulling the adapter's stream again: no new call of
\* adapter.stream, and the iterator is as it was when that pull started.
C26_ClosedAfterFinal ==
    HasFinal(consumer.returned) =>
        /\ runtime.closed
        /\ iterator.closed
        /\ consumer.pc = "idle"
        /\ consumer.stream_calls = 1
        /\ \/ /\ consumer.outcome = "event"
              /\ consumer.returned[Len(consumer.returned)].type = "Final"
           \/ /\ consumer.outcome = "eos"
              /\ consumer.before.runtime.closed
              /\ iterator = consumer.before.iterator

\* A pull made after the Final was returned has ended.
C26_Witness ==
    /\ HasFinal(consumer.returned)
    /\ consumer.outcome = "eos"
    /\ consumer.pulls > Len(consumer.returned) + 1

\* C27: when the pull of the underlying stream raises end-of-stream, a cancellation
\* or another error, the runtime closes itself and the stream iterator and raises
\* that same exception; the agent state and the transcript are as they were before
\* the pull.
C27_RaiseClosesAndKeepsState ==
    (consumer.pc = "idle" /\ consumer.raised # "none") =>
        /\ runtime.closed
        /\ ~runtime.stream
        /\ iterator.closed
        /\ consumer.outcome = consumer.raised
        /\ runtime.state = consumer.before.runtime.state
        /\ runtime.transcript = consumer.before.runtime.transcript

\* The source raised an error after an event had been handled, and the open
\* iterator was closed by the runtime.
C27_Witness ==
    /\ consumer.pc = "idle"
    /\ consumer.raised \in {"err", "cancelled"}
    /\ Len(consumer.returned) > 0
    /\ ~consumer.before.iterator.closed
    /\ iterator.closed

\* What C28 says of a transcript whose events are `expected`: the transcript holds
\* them in order with one state snapshot each, and a replay() yields them: what it
\* has yielded so far are the first events, and when it ended it had yielded all the
\* events the transcript held.
TranscriptHolds(expected) ==
    /\ runtime.transcript.events = expected
    /\ Len(runtime.transcript.states) = Len(runtime.transcript.events)
    /\ replay.yielded = SubSeq(runtime.transcript.events, 1, Len(replay.yielded))
    /\ replay.done => Len(replay.yielded) = replay.total

\* C28 as stated: after any sequence of pulls, transcript.events is exactly the
\* sequence of events the runtime has returned, in order; transcript.states has the
\* same length; and transcript.replay() yields that same sequence.
C28_TranscriptIsReturned ==
    runtime.constructed => TranscriptHolds(consumer.returned)

\* C28, amended: transcript.events is the events the transcript passed to the
\* constructor already held, followed by the events the runtime has returned, in
\* order; transcript.states has the same length; and transcript.replay() yields
\* that sequence.
C28_TranscriptExtendsGiven ==
    runtime.constructed => TranscriptHolds(runtime.given.events \o consumer.returned)

\* A runtime given a transcript with an earlier event has returned two events and a
\* replay of its transcript has run to its end.
C28_Witness ==
    /\ Len(runtime.given.events) > 0
    /\ Len(consumer.returned) >= 2
    /\ replay.done
    /\ Len(replay.yielded) = Len(runtime.transcript.events)

\* The non-empty argument fragment a tool-call delta carries, if any.
ReceivedFragments(item) ==
    LET fn == item.function
    IN  IF IsNone(fn) THEN <<>>
        ELSE IF IsNone(Val(fn).arguments) THEN <<>>
        ELSE IF Val(Val(fn).arguments) = "" THEN <<>>
        ELSE <<Val(Val(fn).arguments)>>

\* parsed is a JSON object and args is that object.
ParsedAs(parsed, args) == parsed.ok /\ parsed.is_dict /\ args = parsed.value

\* args is the JSON object parsed from the concatenation of the fragments, {} when
\* there is no fragment.
ParsedFrom(fragments, args) ==
    IF fragments = <<>> THEN args = {}
    ELSE ParsedAs(JsonLoads(JoinStr(fragments)), args)

\* The entries of the tool_calls payload of a chunk, in order, and its finish_reason.
EntriesOf(chunk) ==
    LET delta == extract_delta(Val(chunk.choices)[1])
    IN  IF IsNone(delta.tool_calls) THEN <<>> ELSE Val(delta.tool_calls)
FinishReasonOf(chunk) == Val(chunk.choices)[1].finish_reason

\* The normalisation of a fed chunk at the point where its tool_calls entries begin.
AtEntries(call) ==
    normalize_content(Progress(call.before, <<>>, FALSE),
                      extract_delta(Val(call.chunk.choices)[1]))

\* The entries of one chunk, taken in arrival order next to the code. received[k]
\* holds the non-empty fragments received for index k since its accumulator was
\* created (an accumulator ends where the code builds its ToolCall); ok: every
\* ToolCall built has the args parsed from received[k]. An entry that follows
\* one that raised is received and not looked at by the code.
RECURSIVE EntriesArgsAsClaimed(_, _, _, _)
EntriesArgsAsClaimed(r, received, entries, finish_reason) ==
    IF entries = <<>> THEN [received |-> received, ok |-> TRUE]
    ELSE LET item == Head(entries)
             k == item.index
             old == IF k \in DOMAIN received THEN received[k] ELSE <<>>
             got == old \o ReceivedFragments(item)
             r1 == IF r.err THEN r ELSE normalize_tool_call_item(r, item, finish_reason)
             built == Len(r1.events) > Len(r.events)
             rest == EntriesArgsAsClaimed(
                        r1, IF built THEN DictPop(received, k)
                            ELSE DictSet(received, k, got),
                        Tail(entries), finish_reason)
         IN  IF built
             THEN [rest EXCEPT
                     !.ok = @ /\ ParsedFrom(got, r1.events[Len(r1.events)].args)]
             ELSE rest

\* The calls of normalize_chunk in order: the ToolCalls of every chunk that was
\* accepted have the args the fragments received give.
RECURSIVE ArgsAsClaimed(_, _)
ArgsAsClaimed(calls, received) ==
    IF calls = <<>> THEN TRUE
    ELSE LET call == Head(calls)
             walked == EntriesArgsAsClaimed(AtEntries(call), received,
                                            EntriesOf(call.chunk),
                                            FinishReasonOf(call.chunk))
         IN  /\ call.err \/ walked.ok
             /\ ArgsAsClaimed(Tail(calls), walked.received)

\* C29: the args of every ToolCall event emitted by _OpenAINormalizer equal the JSON
\* object parsed from the concatenation, in arrival order, of exactly the non-empty
\* argument fragments received for that tool call's provider index since its
\* accumulator was created; fragments of other indices are never mixed in, and a
\* tool call finalised with no fragment has args {}.
C29_ArgsFromFragments == ArgsAsClaimed(fed, EmptyDict)

\* The entries of one chunk, taken in arrival order next to the code. fresh[k] is
\* the accumulator that starts empty at the first entry with index k after the
\* latest ToolCall built for k (or ever) and takes the entries since; ok: every
\* ToolCall built has the call_id, name and args of fresh[k].
RECURSIVE EntriesFromEmpty(_, _, _, _)
EntriesFromEmpty(r, fresh, entries, finish_reason) ==
    IF entries = <<>> THEN [fresh |-> fresh, ok |-> TRUE]
    ELSE IF r.err THEN [fresh |-> fresh, ok |-> TRUE]
    ELSE LET item == Head(entries)
             k == item.index
             start == IF k \in DOMAIN fresh THEN fresh[k] ELSE NewToolCallState
             upd == update_from_payload(start, item)
             taken == IF upd.err THEN upd.state
                      ELSE [upd.state EXCEPT !.fragments = @ \o ReceivedFragments(item)]
             r1 == normalize_tool_call_item(r, item, finish_reason)
             built == Len(r1.events) > Len(r.events)
             event == r1.events[Len(r1.events)]
             rest == EntriesFromEmpty(
                        r1, IF built THEN DictPop(fresh, k) ELSE DictSet(fresh, k, taken),
                        Tail(entries), finish_reason)
         IN  IF built
             THEN [rest EXCEPT
                     !.ok = /\ @
                            /\ Some(event.call_id) = taken.call_id
                            /\ Some(event.name) = taken.name
                            /\ ParsedFrom(taken.fragments, event.args)]
             ELSE rest

RECURSIVE FromEmptyAsClaimed(_, _)
FromEmptyAsClaimed(calls, fresh) ==
    IF calls = <<>> THEN TRUE
    ELSE LET call == Head(calls)
             walked == EntriesFromEmpty(AtEntries(call), fresh, EntriesOf(call.chunk),
                                        FinishReasonOf(call.chunk))
         IN  /\ call.err \/ walked.ok
             /\ FromEmptyAsClaimed(Tail(calls), walked.fresh)

\* The provider indices of the entries of a chunk.
IndicesOf(chunk) == {EntriesOf(chunk)[i].index : i \in 1..Len(EntriesOf(chunk))}

\* The call returned ToolCall events.
Emitted(call) == \E i \in 1..Len(call.events) : call.events[i].type = "ToolCall"

\* C30: right after a ToolCall for provider index k is emitted, tool_states has no
\* entry for k, and the accumulators of the other indices are as they were before
\* the chunk; a later tool-call delta with index k starts from an empty accumulator,
\* so every later ToolCall has the call_id, name and arguments given since then.
C30_RemovedOnEmission ==
    /\ \A i \in 1..Len(fed) :
          Emitted(fed[i]) =>
            /\ \A k \in IndicesOf(fed[i].chunk) : k \notin DOMAIN fed[i].after.tool_states
            /\ \A j \in DOMAIN fed[i].before.tool_states \ IndicesOf(fed[i].chunk) :
                  /\ j \in DOMAIN fed[i].after.tool_states
                  /\ fed[i].after.tool_states[j] = fed[i].before.tool_states[j]
            /\ DOMAIN fed[i].after.tool_states \subseteq DOMAIN fed[i].before.tool_states
    /\ FromEmptyAsClaimed(fed, EmptyDict)

\* A ToolCall with arguments was emitted for index 0 while index 1 had an
\* accumulator, and a later ToolCall for index 0 has another call_id and name.
C30_Witness ==
    \E i, j \in 1..Len(fed) :
        /\ i < j
        /\ Emitted(fed[i]) /\ Emitted(fed[j])
        /\ IndicesOf(fed[i].chunk) = {0} /\ IndicesOf(fed[j].chunk) = {0}
        /\ 1 \in DOMAIN fed[i].before.tool_states
        /\ fed[i].events[1].args # {}
        /\ fed[j].events[1].call_id # fed[i].events[1].call_id
        /\ fed[j].events[1].name # fed[i].events[1].name
        /\ fed[j].events[1].args = {}

\* C38: a chunk that normalize_chunk rejects with an error leaves the normalizer
\* state as it was before the call: the calls made to the sequence and timestamp
\* factories, token_index, text_fragments, tool_states, last_total_tokens,
\* last_tool_result_output and final_emitted.
C38_RejectedChunkLeavesState ==
    \A i \in 1..Len(fed) : fed[i].err => fed[i].after = fed[i].before

\* The ToolCall events among `events` (none when the number is 0).
HasNoToolCall(events) == CountOf(events, "ToolCall") = 0

\* C37: ToolCall events are created only while a chunk with finish_reason
\* "tool_calls" is processed. A chunk with finish_reason stop, length or
\* content_filter yields the Final and no ToolCall, whatever tool-call fragments
\* are accumulated by then or arrive with it: they stay in tool_states, un-emitted.
C37_ToolCallsOnlyOnToolCallsChunk ==
    \A i \in 1..Len(fed) :
        LET call == fed[i]
            reason == FinishReasonOf(call.chunk)
        IN  ~call.err =>
              /\ reason # <<"tool_calls">> => HasNoToolCall(call.events)
              /\ reason \in {<<"stop">>, <<"length">>, <<"content_filter">>} =>
                    /\ Len(call.events) = 1
                    /\ call.events[1].type = "Final"
                    /\ call.events[1].finish_reason = reason[1]
                    /\ call.events[1].output = ""
                    /\ \A k \in DOMAIN call.before.tool_states :
                          /\ k \in DOMAIN call.after.tool_states
                          /\ k \notin IndicesOf(call.chunk) =>
                                call.after.tool_states[k] = call.before.tool_states[k]

\* A call with a known id and name and fragments that parse was accumulated under
\* index 0 when a chunk with finish_reason "length" brought one more fragment for
\* it: the chunk was accepted and the accumulator holds both fragments.
C37_Witness ==
    \E i \in 1..Len(fed) :
        /\ ~fed[i].err
        /\ FinishReasonOf(fed[i].chunk) = <<"length">>
        /\ 0 \in DOMAIN fed[i].before.tool_states
        /\ Announced(fed[i].before.tool_states[0])
        /\ fed[i].before.tool_states[0].fragments = <<"{">>
        /\ fed[i].after.tool_states[0].fragments = <<"{", "}">>
        /\ fed[i].after.final_emitted

\* C35: whenever a pull raises end-of-stream the iterator is closed and the closer
\* of the provider source has been called; no open iterator signals end-of-stream;
\* and neither the closed nor the finalized flag ever goes back to false.
C35_EosOnlyWhenClosed ==
    /\ [](pull.kind = "eos" => closed /\ closer_calls >= 1)
    /\ [][(closed => closed') /\ (finalized => finalized')]_vars

\* A pull that found the iterator finalized with an empty buffer has raised
\* end-of-stream, after an earlier pull had handed over the Final.
C35_Witness ==
    /\ pull.kind = "eos"
    /\ pull.after_final
    /\ finalized
    /\ closed
    /\ pc[Puller] = "idle"

\* A call of aclose() / close() made by the consumer task c returns in this step:
\* at once, after waiting for the lock, or when the closer it awaited completes.
ConsumerCloseReturns(c) ==
    \/ pc[c] \in {"lock", "closer"} /\ pc'[c] = "idle"
    \/ pc[c] = "idle" /\ pc'[c] = "idle" /\ close_calls' = close_calls + 1
                      /\ \A d \in Closers : d < c => pc[d] # "idle"

\* The call of aclose() / close() made from inside a pull returns in this step:
\* after waiting for the lock or for the closer, or at once on end of source.
PullerCloseReturns ==
    \/ pc[Puller] \in {"lock", "closer"} /\ pc'[Puller] = "idle"
    \/ pc[Puller] = "fetch" /\ pc'[Puller] = "idle" /\ pull'.src = "end"

\* The source's closer has been called and no task is awaiting it.
DisposalComplete == closer_calls = 1 /\ \A t \in {Puller} \cup Closers : pc[t] # "closer"

\* C36: when a call of aclose() / close() returns, the closer of the provider
\* source that the first closing task started has completed; a call that arrives
\* while the closer is awaited returns only after it.
C36_CloseReturnsAfterDisposal ==
    [][(PullerCloseReturns \/ \E c \in Closers : ConsumerCloseReturns(c))
          => (closed' /\ DisposalComplete')]_vars

\* A second consumer task called aclose() while the first was awaiting the closer:
\* it waits for the lock, with the iterator already closed.
C36_Witness ==
    /\ closed
    /\ closer_calls = 1
    /\ \E c, d \in Closers : pc[c] = "closer" /\ pc[d] = "lock" /\ close_lock = c
    /\ ~close_returned

(* ---- _OpenAIStream under a consumer that keeps pulling ---- *)
(* The source answers every fetch (with a chunk, its end or an error) and *)
(* yields at most MaxChunks chunks, every closer that is awaited          *)
(* completes, a task that waits for the close lock gets it once it is     *)
(* free (asyncio.Lock wakes its waiters in turn), and the consumer starts *)
(* another pull whenever the previous one has ended.                      *)
SpecPulling ==
    /\ Spec
    /\ WF_vars(PullStart)
    /\ WF_vars(FetchChunk \/ FetchEnd \/ FetchError)
    /\ WF_vars(PullerLockAcquired)
    /\ WF_vars(PullerCloserDone)
    /\ \A c \in Closers : WF_vars(CloseLockAcquired(c))
    /\ \A c \in Closers : WF_vars(CloseCloserDone(c))

(* ---- BaseStreamIterator under a consumer that keeps pulling ---- *)
(* The same hypotheses for the base iterator and its source.             *)
SpecBasePulling ==
    /\ SpecBase
    /\ WF_vars(BasePullStart)
    /\ WF_vars(BaseFetchChunk \/ BaseFetchEnd \/ BaseFetchError)
    /\ WF_vars(BasePullerLockAcquired)
    /\ WF_vars(BasePullerCloserDone)
    /\ \A c \in Closers : WF_vars(BaseCloseLockAcquired(c))
    /\ \A c \in Closers : WF_vars(BaseCloseCloserDone(c))

\* What a pull that has ended did: it handed over an event taken from the buffer,
\* or it consumed a chunk that was rejected, or it ended the stream (after an error
\* of the source the stream is closed).
PullMadeProgress ==
    /\ pull.kind = "event" =>
          /\ delivered # <<>>
          /\ delivered[Len(delivered)] = Val(pull.event)
    /\ pull.kind = "eos" => closed
    /\ pull.kind = "err" => pull.src = "chunk" \/ (pull.src = "error" /\ closed)

\* A pull in progress is suspended on the source or on the close of the stream:
\* after a chunk that normalised to no events it fetches again.
PullAwaits == pull.kind = "running" => pc[Puller] \in {"fetch", "lock", "closer"}

\* C39: with a finite source whose fetches and closer complete, a consumer that
\* keeps pulling eventually receives end-of-stream or an error; every pull ends,
\* having consumed a chunk or a buffered event or ended the stream; and a pull
\* that goes on after chunks without events is waiting for the source. It is stated
\* of _OpenAIStream (SpecPulling) and of BaseStreamIterator (SpecBasePulling).
C39_PullsTerminate ==
    /\ <>(pull.kind \in {"eos", "err"})
    /\ (pull.kind = "running") ~> (pull.kind # "running")
    /\ [](PullMadeProgress /\ PullAwaits)

\* A chunk with one choice whose delta carries an empty tool_calls sequence, no
\* content and no finish_reason.
EmptyToolCalls(chunk) ==
    /\ ~IsNone(chunk.choices) /\ Val(chunk.choices) # <<>>
    /\ EntriesOf(chunk) = <<>>
    /\ extract_delta(Val(chunk.choices)[1]).tool_calls = Some(<<>>)
    /\ IsNone(extract_delta(Val(chunk.choices)[1]).content)
    /\ IsNone(FinishReasonOf(chunk))
    /\ IsNone(chunk.tool_result)

\* C31: a chunk whose choices field is an empty sequence is rejected with an error
\* by normalize_chunk of the canonical _OpenAINormalizer and of the core
\* OpenAIStreamNormalizer alike; a chunk whose delta.tool_calls is an empty
\* sequence is accepted by both and yields no event.
C31_EmptyChoicesRejected ==
    \A i \in 1..Len(core) :
        LET call == core[i]
            canonical == normalize_chunk(NormalizerInit, call.chunk)
        IN  /\ call.chunk.choices = Some(<<>>) => call.err /\ canonical.err
            /\ EmptyToolCalls(call.chunk) =>
                  /\ ~call.err /\ call.events = <<>>
                  /\ ~canonical.err /\ canonical.events = <<>>

IsToolCallEvent(e) == e.type = "ToolCall"

\* The ToolCall events the claim expects of the tool_calls entries of one chunk,
\* given the id and name known for each provider index before the chunk: one event
\* per entry with a non-empty arguments fragment, in order, with the latest id and
\* name given for the index of the entry, up to and including the entry itself.
RECURSIVE FragmentEvents(_, _, _)
FragmentEvents(known, entries, finish_reason) ==
    IF entries = <<>> THEN <<>>
    ELSE LET entry == Head(entries)
             k == entry.index
             fn == entry.function
             id == IF ~IsNone(entry.id) THEN entry.id
                   ELSE IF k \in DOMAIN known THEN known[k].call_id ELSE None
             name == IF ~IsNone(fn) /\ ~IsNone(Val(fn).name) THEN Val(fn).name
                     ELSE IF k \in DOMAIN known THEN known[k].name ELSE None
             fragment == IF IsNone(fn) \/ IsNone(Val(fn).arguments) THEN ""
                         ELSE Val(Val(fn).arguments)
             here == IF fragment = "" THEN <<>>
                     ELSE <<[type |-> "ToolCall", id |-> Val(id), name |-> Val(name),
                             args_fragment |-> fragment,
                             is_final |-> (finish_reason = <<"tool_calls">>)]>>
         IN  here \o FragmentEvents(DictSet(known, k, [call_id |-> id, name |-> name]),
                                    Tail(entries), finish_reason)

\* The chunks fed so far and the events returned for them, one list after the other.
RECURSIVE CoreEvents(_)
CoreEvents(calls) ==
    IF calls = <<>> THEN <<>> ELSE Head(calls).events \o CoreEvents(Tail(calls))
CoreChunks == [i \in 1..Len(core) |-> core[i].chunk]

\* C34: the core OpenAIStreamNormalizer emits one ToolCallEvent per non-empty
\* argument fragment, in arrival order, with the id and name accumulated so far
\* for the provider index, and is_final true exactly when the chunk carries
\* finish_reason "tool_calls"; fed the chunks of the tool-call flow it returns,
\* chunk after chunk, the events of MockStreamIterator("tool_call").
C34_OneEventPerFragment ==
    /\ \A i \in 1..Len(core) :
          LET call == core[i]
              calls == SelectSeq(call.events, IsToolCallEvent)
          IN  ~call.err =>
                IF IsNone(core_extract_choice(call.chunk)) THEN calls = <<>>
                ELSE calls = FragmentEvents(call.before.tool_states,
                                            EntriesOf(call.chunk),
                                            FinishReasonOf(call.chunk))
    /\ CoreChunks = SubSeq(ToolCallFlow, 1, Len(core)) =>
          /\ \A i \in 1..Len(core) : ~core[i].err
          /\ CoreEvents(core) = SubSeq(make_events("tool_call").events, 1, Len(core))

\* The five chunks of the tool-call flow were fed and the five events returned.
C34_Witness ==
    /\ Len(core) = Len(ToolCallFlow)
    /\ CoreChunks = ToolCallFlow
    /\ CoreEvents(core) = make_events("tool_call").events
    /\ core[3].events[1].is_final /\ ~core[2].events[1].is_final

\* The events of `events` that are ToolCall events with the given id, in order.
RECURSIVE CallsWithId(_, _)
CallsWithId(events, id) ==
    IF events = <<>> THEN <<>>
    ELSE (IF Head(events).type = "ToolCall" /\ Head(events).id = id
          THEN <<Head(events)>> ELSE <<>>) \o CallsWithId(Tail(events), id)

RECURSIVE JoinFragments(_)
JoinFragments(calls) ==
    IF calls = <<>> THEN "" ELSE Head(calls).args_fragment \o JoinFragments(Tail(calls))

ReceivedIds ==
    {session.received[i].id : i \in Positions(session.received, "ToolCall")}

\* metadata["tool_calls"] holds, for every id received, the concatenation of its
\* fragments in arrival order and the is_final of its latest event.
ToolCallsAsClaimed ==
    LET tool_calls == session.rt.state.metadata.tool_calls
    IN  IF ReceivedIds = {} THEN IsNone(tool_calls)
        ELSE /\ ~IsNone(tool_calls)
             /\ DOMAIN Val(tool_calls) = ReceivedIds
             /\ \A id \in ReceivedIds :
                   LET calls == CallsWithId(session.received, id)
                   IN  /\ Val(tool_calls)[id].args = JoinFragments(calls)
                       /\ Val(tool_calls)[id].is_final = calls[Len(calls)].is_final

\* C32 as stated: after any sequence of events, metadata["tool_calls"][id]["args"]
\* is the concatenation in arrival order of the fragments received with that id,
\* its is_final is that of the latest such event, and metadata["token_counts"]
\* equals the number of Token events received.
C32_MetadataAsClaimed ==
    session.received # <<>> /\ session.mutations = 0 =>
        /\ ToolCallsAsClaimed
        /\ session.rt.state.metadata.token_counts
              = Some(CountOf(session.received, "Token"))

\* C32 amended: the same, with metadata["token_counts"] absent until the first
\* Token event is received and equal to the number of Token events from then on.
C32_MetadataOnceReceived ==
    session.received # <<>> /\ session.mutations = 0 =>
        /\ ToolCallsAsClaimed
        /\ session.rt.state.metadata.token_counts
              = IF CountOf(session.received, "Token") = 0 THEN None
                ELSE Some(CountOf(session.received, "Token"))

\* Two fragments of tool-1 were received with a fragment of tool-2 between them,
\* and a Token.
C32_Witness ==
    /\ session.mutations = 0
    /\ Len(CallsWithId(session.received, "tool-1")) = 2
    /\ \E i, j, k \in 1..Len(session.received) :
          /\ i < j /\ j < k
          /\ session.received[i] = SessionEventInputs[2]
          /\ session.received[j] = SessionEventInputs[4]
          /\ session.received[k] = SessionEventInputs[3]
    /\ CountOf(session.received, "Token") = 1
    /\ Val(session.rt.state.metadata.tool_calls)["tool-1"].args = "{}"

\* The fields of an agent state.
SameState(a, b) ==
    /\ a.memory = b.memory
    /\ a.last_tool = b.last_tool
    /\ a.tokens = b.tokens
    /\ a.metadata = b.metadata

\* C33: the snapshot recorded for the k-th event equals the agent state right after
\* that event was handled, whatever events were handled and whatever changes were
\* made to runtime.state since, to its containers or to the event objects they
\* hold.
C33_SnapshotsDetached ==
    /\ Len(session.rt.transcript.states) = Len(session.received)
    /\ \A k \in 1..Len(session.rt.transcript.states) :
          SameState(session.rt.transcript.states[k], session.after[k])


====
